---- MODULE Spec2Model ----
(***************************************************************************)
(* The meal planner's view models over their repositories:                 *)
(*   ShoppingListViewModel.generate_shopping_list_from_meal_plans,         *)
(*   create_shopping_list, delete_shopping_list,                           *)
(*   MealPlanViewModel.create_meal_plan / update_meal_plan /               *)
(*   delete_meal_plan,                                                     *)
(*   RecipeViewModel.create_recipe / update_recipe / delete_recipe /       *)
(*   add_ingredient / remove_ingredient,                                   *)
(* and the repository methods they call, over the tables recipes,          *)
(* ingredients, meal_plans (with meal_plan_recipes), shopping_lists and    *)
(* shopping_list_items and the SQLAlchemy sessions of the repositories.    *)
(***************************************************************************)
EXTENDS Integers, Sequences, FiniteSets, TLC

VARIABLES recipes, ingredients, meal_plans,
          shopping_lists, shopping_list_items, session,
          recipe_session, last, runs, app

vars == <<recipes, ingredients, meal_plans,
          shopping_lists, shopping_list_items, session,
          recipe_session, last, runs, app>>

(***************************************************************************)
(* Bounds of the model.                                                    *)
(***************************************************************************)
MaxDate == 2
MaxRecipes == 1
MaxLines == 2
MaxPlans == 2
MaxLists == 2
MantissaBits == 3

(***************************************************************************)
(* Values.                                                                 *)
(***************************************************************************)
\* Python None, for an optional string or an optional integer
NoneStr == "None"
NoneId == 0

Dates == 1..MaxDate
RecipeIds == 1..MaxRecipes

\* MealType values as stored in the String column meal_plans.meal_type;
\* ORDER BY meal_type compares the stored strings, so the sequence below is
\* the order the range query returns them in within one date.
MealTypeOrder == <<"BREAKFAST", "DINNER", "LUNCH">>
MealTypes == {MealTypeOrder[i] : i \in 1..Len(MealTypeOrder)}
MealTypeRank(t) == CHOOSE i \in 1..Len(MealTypeOrder) : MealTypeOrder[i] = t

\* the members of the enumeration MealType in the order of their definition
MealTypeMembers == <<"BREAKFAST", "LUNCH", "DINNER">>
MealTypeIndex(t) == CHOOSE i \in 1..Len(MealTypeMembers) : MealTypeMembers[i] = t

\* str.strip() of a required field is empty
IsBlank(s) == s \in {"", " "}

ListNames == {"weekend", " "}

\* the columns name, quantity, unit, category of a row of the ingredients
\* table
IngredientLines ==
  { [name |-> "egg", quantity |-> 2, unit |-> "g", category |-> "OTHER"],
    [name |-> "egg", quantity |-> 2, unit |-> "ml", category |-> "OTHER"] }

RECURSIVE SeqsUpTo(_, _)
SeqsUpTo(S, n) ==
  IF n = 0 THEN {<<>>}
  ELSE LET shorter == SeqsUpTo(S, n - 1)
       IN shorter \cup {Append(s, x) : s \in {t \in shorter : Len(t) = n - 1}, x \in S}

Max(S) == CHOOSE x \in S : \A y \in S : y <= x

\* the element of a one-element set
Only(S) == CHOOSE x \in S : TRUE

(***************************************************************************)
(* Python float addition.  A float keeps a fixed number of significant     *)
(* bits (53 for binary64, MantissaBits here) and every sum is rounded to   *)
(* the nearest representable value, ties to even.  Quantities are          *)
(* non-negative in the model.                                              *)
(***************************************************************************)
RECURSIVE Pow2(_)
Pow2(n) == IF n = 0 THEN 1 ELSE 2 * Pow2(n - 1)

\* the spacing of representable values around x
RECURSIVE Ulp(_, _)
Ulp(x, step) == IF x < step * Pow2(MantissaBits) THEN step ELSE Ulp(x, 2 * step)

RoundFloat(x) ==
  LET step == Ulp(x, 1)
      q == x \div step
      r == x % step
  IN IF 2 * r < step THEN q * step
     ELSE IF 2 * r > step THEN (q + 1) * step
     ELSE IF q % 2 = 0 THEN q * step ELSE (q + 1) * step

FloatAdd(a, b) == RoundFloat(a + b)

(***************************************************************************)
(* Reads.                                                                  *)
(*                                                                         *)
(* The repositories read "one row with its collection" with                *)
(*   select(M).where(M.id == id).options(joinedload(M.collection))         *)
(*   session.execute(stmt).scalar_one_or_none()                            *)
(* A 2.0-style select that joined-eager-loads a collection must be         *)
(* consumed through Result.unique(); without it SQLAlchemy raises          *)
(* InvalidRequestError ("The unique() method must be invoked on this       *)
(* Result, as it contains results that include joined eager loads against  *)
(* collections") as soon as a row is taken from the result.  No repository *)
(* method calls unique(); InvalidRequestError is a SQLAlchemyError, which  *)
(* each method turns into DatabaseException.  With no matching row nothing *)
(* is taken from the result and the method returns None.                   *)
(***************************************************************************)
scalar_one_or_none(found) == IF found THEN "DatabaseException" ELSE "None"

\* the primary keys of the meal_plans table; meal_plans maps each to its row
PlanIds == DOMAIN meal_plans

PlanBefore(p, q) ==
  \/ meal_plans[p].date < meal_plans[q].date
  \/ /\ meal_plans[p].date = meal_plans[q].date
     /\ MealTypeRank(meal_plans[p].meal_type) < MealTypeRank(meal_plans[q].meal_type)

RECURSIVE OrderPlans(_)
OrderPlans(S) ==
  IF S = {} THEN <<>>
  ELSE LET first == CHOOSE p \in S : \A q \in S \ {p} : PlanBefore(p, q)
       IN <<first>> \o OrderPlans(S \ {first})

\* get_by_date_range with both ends of the range excluded
GetByDateRangeExclusive(start_date, end_date) ==
  OrderPlans({p \in PlanIds : /\ meal_plans[p].date > start_date
                              /\ meal_plans[p].date < end_date})

\* MealPlanRepository.get_by_date_range: the ids of the meal plans whose
\* date is in [start_date, end_date], ordered by date, then meal_type
get_by_date_range(start_date, end_date) ==
  OrderPlans({p \in PlanIds : /\ meal_plans[p].date >= start_date
                              /\ meal_plans[p].date <= end_date})

\* MealPlanRepository.get_with_recipes(meal_plan_id)
get_with_recipes(p) == scalar_one_or_none(p \in PlanIds)

\* MealPlanRepository.get_by_date_and_meal_type(date_val, meal_type)
get_by_date_and_meal_type(date_val, meal_type) ==
  scalar_one_or_none(\E p \in PlanIds : /\ meal_plans[p].date = date_val
                                        /\ meal_plans[p].meal_type = meal_type)

RECURSIVE OrderIds(_)
OrderIds(S) ==
  IF S = {} THEN <<>>
  ELSE LET first == CHOOSE x \in S : \A y \in S : x <= y
       IN <<first>> \o OrderIds(S \ {first})

\* MealPlan.recipes of a loaded meal plan: the recipes of the plan, in the
\* order of the association table's primary key
RecipesOf(p) == OrderIds(meal_plans[p].recipes)

\* Recipe.ingredients of a loaded recipe: its rows of the ingredients table,
\* in the order of their primary key
IngredientsOf(r) ==
  LET rows == {g \in ingredients : g.recipe_id = r}
      order == OrderIds({g.id : g \in rows})
  IN [i \in 1..Len(order) |-> CHOOSE g \in rows : g.id = order[i]]

(***************************************************************************)
(* The aggregation loop of generate_shopping_list_from_meal_plans.         *)
(* ingredients_map is a dict: a sequence of entries in first-insertion     *)
(* order, at most one entry per key.                                       *)
(***************************************************************************)
KeyOf(ingredient) == <<ingredient.name, ingredient.unit, ingredient.category>>

HasKey(ingredients_map, key) ==
  \E i \in 1..Len(ingredients_map) : ingredients_map[i].key = key

AddIngredient(ingredients_map, ingredient) ==
  LET key == KeyOf(ingredient)
  IN IF HasKey(ingredients_map, key)
     THEN [i \in 1..Len(ingredients_map) |->
             IF ingredients_map[i].key = key
             THEN [ingredients_map[i] EXCEPT
                     !.total = FloatAdd(ingredients_map[i].total, ingredient.quantity)]
             ELSE ingredients_map[i]]
     ELSE Append(ingredients_map, [key |-> key, total |-> ingredient.quantity])

RECURSIVE AddIngredients(_, _)
AddIngredients(ingredients_map, lines) ==
  IF lines = <<>> THEN ingredients_map
  ELSE AddIngredients(AddIngredient(ingredients_map, Head(lines)), Tail(lines))

\* the ingredient lines met when the recipes of recipe_seq are walked in order
RECURSIVE LinesOfRecipes(_)
LinesOfRecipes(recipe_seq) ==
  IF recipe_seq = <<>> THEN <<>>
  ELSE IngredientsOf(Head(recipe_seq)) \o LinesOfRecipes(Tail(recipe_seq))

\* the ingredient lines met when the plans of plan_seq are walked in order,
\* the recipes of each plan in the order recipe_order gives them
RECURSIVE LinesOfPlans(_, _)
LinesOfPlans(plan_seq, recipe_order) ==
  IF plan_seq = <<>> THEN <<>>
  ELSE LinesOfRecipes(recipe_order[Head(plan_seq)])
         \o LinesOfPlans(Tail(plan_seq), recipe_order)

CodeRecipeOrder == [p \in PlanIds |-> RecipesOf(p)]

\* the mapping the loop builds when every lookup returns its row
Aggregate(plan_seq, recipe_order) ==
  AddIngredients(<<>>, LinesOfPlans(plan_seq, recipe_order))

\* lines 290-304 for the recipes of one loaded meal plan.  The recipe query
\* ends in .first(); for a recipe that is gone it returns None and
\* None.ingredients raises AttributeError.
RECURSIVE WalkRecipes(_, _, _)
WalkRecipes(recipe_seq, ingredients_map, calls) ==
  IF recipe_seq = <<>>
  THEN [raised |-> "none", ingredients_map |-> ingredients_map, calls |-> calls]
  ELSE IF Head(recipe_seq) \notin recipes
  THEN [raised |-> "AttributeError", ingredients_map |-> ingredients_map,
        calls |-> Append(calls, "query_recipe")]
  ELSE WalkRecipes(Tail(recipe_seq),
                   AddIngredients(ingredients_map, IngredientsOf(Head(recipe_seq))),
                   Append(calls, "query_recipe"))

\* lines 286-304: the loop over the meal plans the range query returned.
\* get_with_recipes raises DatabaseException for a meal plan that exists;
\* for one that is gone it returns None and None.recipes raises
\* AttributeError.
RECURSIVE WalkPlans(_, _, _)
WalkPlans(plan_seq, ingredients_map, calls) ==
  IF plan_seq = <<>>
  THEN [raised |-> "none", ingredients_map |-> ingredients_map, calls |-> calls]
  ELSE LET loaded == get_with_recipes(Head(plan_seq))
           called == Append(calls, "get_with_recipes")
       IN IF loaded = "DatabaseException"
          THEN [raised |-> "DatabaseException", ingredients_map |-> ingredients_map,
                calls |-> called]
          ELSE IF loaded = "None"
          THEN [raised |-> "AttributeError", ingredients_map |-> ingredients_map,
                calls |-> called]
          ELSE LET walked == WalkRecipes(RecipesOf(Head(plan_seq)), ingredients_map, called)
               IN IF walked.raised # "none" THEN walked
                  ELSE WalkPlans(Tail(plan_seq), walked.ingredients_map, walked.calls)

\* lines 306-315: one item dict per entry of ingredients_map
BuildItems(ingredients_map) ==
  [i \in 1..Len(ingredients_map) |->
     [ingredient_name |-> ingredients_map[i].key[1],
      total_quantity |-> ingredients_map[i].total,
      unit |-> ingredients_map[i].key[2],
      category |-> ingredients_map[i].key[3],
      is_purchased |-> FALSE]]

(***************************************************************************)
(* The shopping-list repository's SQLAlchemy session over the tables       *)
(* shopping_lists and shopping_list_items.  db is the record               *)
(*   [shopping_lists, shopping_list_items, session]                        *)
(* where session.lists are header rows new or modified in the session and  *)
(* not committed, session.items are item objects added to the session, not *)
(* flushed, and session.purged are the ids of the lists whose item rows a   *)
(* bulk DELETE removed inside the open transaction.                        *)
(***************************************************************************)
EmptySession == [lists |-> {}, items |-> <<>>, purged |-> {}]

\* rows with the rows of changed in place of those of the same id
Overrides(rows, changed) ==
  {l \in rows : \A c \in changed : c.id # l.id} \cup changed

\* rows a query on this session returns: committed rows and rows flushed
\* in its open transaction
VisibleLists(db) == Overrides(db.shopping_lists, db.session.lists)

\* item rows a query on this session returns
VisibleItems(db) ==
  {it \in db.shopping_list_items : it.shopping_list_id \notin db.session.purged}

\* INTEGER PRIMARY KEY of SQLite: one more than the largest rowid in the table
NextId(rows) == 1 + Max({r.id : r \in rows} \cup {0})

\* session.rollback()
Rollback(db) == [db EXCEPT !.session = EmptySession]

\* session.commit(): flush the added items, then make the transaction durable
RECURSIVE FlushItems(_, _)
FlushItems(rows, added) ==
  IF added = <<>> THEN rows
  ELSE FlushItems(rows \cup {[Head(added) EXCEPT !.id = NextId(rows)]}, Tail(added))

Commit(db) ==
  [shopping_lists |-> VisibleLists(db),
   shopping_list_items |-> FlushItems(VisibleItems(db), db.session.items),
   session |-> EmptySession]

\* ShoppingList(**shopping_list_data) once flushed
HeaderRow(db, shopping_list_data) ==
  [id |-> NextId(VisibleLists(db)),
   name |-> shopping_list_data.name,
   date_range_start |-> shopping_list_data.date_range_start,
   date_range_end |-> shopping_list_data.date_range_end]

\* ShoppingListItem(shopping_list_id=..., **item_data) for an item_data
\* that carries no shopping_list_id key of its own
ItemRow(list_id, item_data) ==
  [id |-> NoneId,
   shopping_list_id |-> list_id,
   ingredient_name |-> item_data.ingredient_name,
   total_quantity |-> item_data.total_quantity,
   unit |-> item_data.unit,
   category |-> item_data.category,
   is_purchased |-> item_data.is_purchased]

\* the item dicts whose construction raises TypeError: the keyword
\* shopping_list_id is given twice
DuplicateKeyword(items_data) ==
  {i \in 1..Len(items_data) : "shopping_list_id" \in DOMAIN items_data[i]}

\* ShoppingListRepository.create_with_items.  fail is the step at which the
\* database raises SQLAlchemyError in this call, if any.
create_with_items(db, shopping_list_data, items_data, fail) ==
  LET header == HeaderRow(db, shopping_list_data)
      flushed == [db EXCEPT !.session.lists = @ \cup {header}]
      dup == DuplicateKeyword(items_data)
      upto == IF dup = {} THEN Len(items_data)
              ELSE (CHOOSE i \in dup : \A j \in dup : i <= j) - 1
      added == [flushed EXCEPT !.session.items =
                  @ \o [i \in 1..upto |-> ItemRow(header.id, items_data[i])]]
  IN IF fail = "flush"
     THEN [db |-> Rollback(db), raised |-> "DatabaseException", id |-> NoneId]
     ELSE IF dup # {}
     THEN [db |-> added, raised |-> "TypeError", id |-> header.id]
     ELSE IF fail = "commit"
     THEN [db |-> Rollback(added), raised |-> "DatabaseException", id |-> NoneId]
     ELSE [db |-> Commit(added), raised |-> "none", id |-> header.id]

\* BaseRepository.create for the ShoppingList model: add, commit, refresh
create(db, shopping_list_data, fail) ==
  LET header == HeaderRow(db, shopping_list_data)
      added == [db EXCEPT !.session.lists = @ \cup {header}]
  IN IF fail # "none"
     THEN [db |-> Rollback(db), raised |-> "DatabaseException", id |-> NoneId]
     ELSE [db |-> Commit(added), raised |-> "none", id |-> header.id]

\* BaseRepository.delete without the removal of the list's items
DeleteKeepingItems(db, id, fail) ==
  IF ~\E l \in VisibleLists(db) : l.id = id
  THEN [db |-> db, raised |-> "none", result |-> FALSE]
  ELSE IF fail # "none"
  THEN [db |-> Rollback(db), raised |-> "DatabaseException", result |-> FALSE]
  ELSE [db |-> [Commit(db) EXCEPT
                  !.shopping_lists = {l \in @ : l.id # id}],
        raised |-> "none", result |-> TRUE]

\* BaseRepository.delete for the ShoppingList model: get_by_id,
\* session.delete, commit.  The relationship ShoppingList.items cascades
\* "all, delete-orphan" and the foreign key is ON DELETE CASCADE, so the
\* flush deletes the items of the list with it.
delete(db, id, fail) ==
  IF ~\E l \in VisibleLists(db) : l.id = id
  THEN [db |-> db, raised |-> "none", result |-> FALSE]
  ELSE IF fail # "none"
  THEN [db |-> Rollback(db), raised |-> "DatabaseException", result |-> FALSE]
  ELSE [db |-> [Commit(db) EXCEPT
                  !.shopping_lists = {l \in @ : l.id # id},
                  !.shopping_list_items = {it \in @ : it.shopping_list_id # id}],
        raised |-> "none", result |-> TRUE]

\* ShoppingListRepository.get_with_items
get_with_items(db, shopping_list_id) ==
  scalar_one_or_none(\E l \in VisibleLists(db) : l.id = shopping_list_id)

\* None as the return value of a view-model call that returns a list
NoList ==
  [id |-> NoneId, name |-> NoneStr, date_range_start |-> 0, date_range_end |-> 0,
   items |-> {}]

\* the rows of the items of a list that a query on the session returns
ItemsOfList(db, shopping_list_id) ==
  {it \in VisibleItems(db) : it.shopping_list_id = shopping_list_id}

\* ShoppingListRead.model_validate of a loaded list with its items
ShoppingListRead(db, shopping_list_id) ==
  IF \E l \in VisibleLists(db) : l.id = shopping_list_id
  THEN LET row == CHOOSE l \in VisibleLists(db) : l.id = shopping_list_id
       IN [id |-> row.id, name |-> row.name,
           date_range_start |-> row.date_range_start,
           date_range_end |-> row.date_range_end,
           items |-> ItemsOfList(db, shopping_list_id)]
  ELSE NoList

(***************************************************************************)
(* ShoppingListViewModel.  A call returns the record                       *)
(*   db       the tables and the session after the call                    *)
(*   result   the ShoppingListRead returned, NoList for None               *)
(*   raised   the exception that left the call, "none" if it returned      *)
(*   handlers the handler invocations, in order, as <<action, kind>>       *)
(*   calls    the repository calls made, in order                          *)
(*   list_id  the id of the header row the call left in the session or in  *)
(*            the table, NoneId if it left none                            *)
(*   write    how the repository write of the call ended: "none" when no   *)
(*            write was attempted, "rejected" when the database raised,    *)
(*            "TypeError", or "committed"                                  *)
(***************************************************************************)
\* ShoppingListItemCreate(**item).model_dump(): every field of the schema,
\* the unset shopping_list_id and id included, as None
ModelDumpItem(item) ==
  [ingredient_name |-> item.ingredient_name,
   total_quantity |-> item.total_quantity,
   unit |-> item.unit,
   category |-> item.category,
   is_purchased |-> item.is_purchased,
   shopping_list_id |-> NoneId,
   id |-> NoneId]

\* validate_required_fields over the header, then over each item
MissingRequired(data, items_data) ==
  \/ IsBlank(data.name)
  \/ \E i \in 1..Len(items_data) :
        IsBlank(items_data[i].ingredient_name) \/ IsBlank(items_data[i].unit)

\* the outcome of the repository write, as recorded in the call
WriteOutcome(written) ==
  IF written.raised = "DatabaseException" THEN "rejected"
  ELSE IF written.raised = "none" THEN "committed"
  ELSE written.raised

\* AfterWrite with a second write attempt after a DatabaseException
AfterWriteRetrying(written, write_call) ==
  IF written.raised = "DatabaseException"
  THEN [db |-> written.db, result |-> NoList, raised |-> "none",
        handlers |-> << <<"create_shopping_list", "error">> >>,
        calls |-> <<write_call, write_call>>, list_id |-> written.id,
        write |-> WriteOutcome(written)]
  ELSE IF written.raised # "none"
  THEN [db |-> written.db, result |-> NoList, raised |-> written.raised,
        handlers |-> <<>>,
        calls |-> <<write_call>>, list_id |-> written.id,
        write |-> WriteOutcome(written)]
  ELSE LET loaded == get_with_items(written.db, written.id)
       IN IF loaded = "DatabaseException"
          THEN [db |-> written.db, result |-> NoList, raised |-> "none",
                handlers |-> << <<"create_shopping_list", "error">> >>,
                calls |-> <<write_call, "get_with_items">>, list_id |-> written.id,
                write |-> WriteOutcome(written)]
          ELSE [db |-> written.db,
                result |-> ShoppingListRead(written.db, written.id),
                raised |-> "none",
                handlers |-> << <<"create_shopping_list", "success">> >>,
                calls |-> <<write_call, "get_with_items">>, list_id |-> written.id,
                write |-> WriteOutcome(written)]

\* the part of create_shopping_list after the repository write: lines 70-82.
\* A DatabaseException of the write is caught; any other exception leaves
\* the call.  After a write that committed, get_with_items is asked for the
\* list just written: the list exists, so it raises DatabaseException, which
\* is caught like the others.
AfterWrite(written, write_call) ==
  IF written.raised = "DatabaseException"
  THEN [db |-> written.db, result |-> NoList, raised |-> "none",
        handlers |-> << <<"create_shopping_list", "error">> >>,
        calls |-> <<write_call>>, list_id |-> written.id,
        write |-> WriteOutcome(written)]
  ELSE IF written.raised # "none"
  THEN [db |-> written.db, result |-> NoList, raised |-> written.raised,
        handlers |-> <<>>,
        calls |-> <<write_call>>, list_id |-> written.id,
        write |-> WriteOutcome(written)]
  ELSE LET loaded == get_with_items(written.db, written.id)
       IN IF loaded = "DatabaseException"
          THEN [db |-> written.db, result |-> NoList, raised |-> "none",
                handlers |-> << <<"create_shopping_list", "error">> >>,
                calls |-> <<write_call, "get_with_items">>, list_id |-> written.id,
                write |-> WriteOutcome(written)]
          ELSE [db |-> written.db,
                result |-> ShoppingListRead(written.db, written.id),
                raised |-> "none",
                handlers |-> << <<"create_shopping_list", "success">> >>,
                calls |-> <<write_call, "get_with_items">>, list_id |-> written.id,
                write |-> WriteOutcome(written)]

\* create_shopping_list without the comparison of the two dates
CreateUnvalidatedRange(db, data, items_data, fail) ==
  IF MissingRequired(data, items_data)
  THEN [db |-> db, result |-> NoList, raised |-> "none",
        handlers |-> << <<"create_shopping_list", "error">> >>,
        calls |-> <<>>, list_id |-> NoneId, write |-> "none"]
  ELSE IF items_data # <<>>
  THEN Only({AfterWrite(written, "create_with_items") :
               written \in {create_with_items(db, data,
                 [i \in 1..Len(items_data) |-> ModelDumpItem(items_data[i])], fail)}})
  ELSE Only({AfterWrite(written, "create") : written \in {create(db, data, fail)}})

create_shopping_list(db, data, items_data, fail) ==
  IF \/ data.date_range_start > data.date_range_end
     \/ MissingRequired(data, items_data)
  THEN [db |-> db, result |-> NoList, raised |-> "none",
        handlers |-> << <<"create_shopping_list", "error">> >>,
        calls |-> <<>>, list_id |-> NoneId, write |-> "none"]
  ELSE IF items_data # <<>>
  THEN Only({AfterWrite(written, "create_with_items") :
               written \in {create_with_items(db, data,
                 [i \in 1..Len(items_data) |-> ModelDumpItem(items_data[i])], fail)}})
  ELSE Only({AfterWrite(written, "create") : written \in {create(db, data, fail)}})

\* ShoppingListViewModel.delete_shopping_list: result is the bool returned
delete_shopping_list(db, shopping_list_id, fail) ==
  IF ~\E l \in VisibleLists(db) : l.id = shopping_list_id
  THEN [db |-> db, result |-> FALSE, raised |-> "none",
        handlers |-> << <<"delete_shopping_list", "error">> >>,
        calls |-> <<"get_by_id">>]
  ELSE LET deleted == delete(db, shopping_list_id, fail)
       IN IF deleted.raised = "DatabaseException"
          THEN [db |-> deleted.db, result |-> FALSE, raised |-> "none",
                handlers |-> << <<"delete_shopping_list", "error">> >>,
                calls |-> <<"get_by_id", "delete">>]
          ELSE [db |-> deleted.db, result |-> deleted.result, raised |-> "none",
                handlers |-> << <<"delete_shopping_list", "success">> >>,
                calls |-> <<"get_by_id", "delete">>]

\* the tail of generate: items_data, the header dict, create_shopping_list.
\* walked is what the loop over the meal plans returned.
GenerateFrom(db, name, start_date, end_date, fail, plans, walked) ==
  LET ingredients_map == walked.ingredients_map
      \* the loop over ingredients_map rebinds the parameter name
      list_name == IF ingredients_map = <<>> THEN name
                   ELSE ingredients_map[Len(ingredients_map)].key[1]
  IN [created |-> create_shopping_list(db,
                    [name |-> list_name,
                     date_range_start |-> start_date,
                     date_range_end |-> end_date],
                    BuildItems(ingredients_map), fail),
      handlers |-> <<>>,
      calls |-> walked.calls,
      plans |-> plans,
      ingredients_map |-> ingredients_map]

\* a call that ends in the except clause of generate before any write
GenerateError(db, calls, plans) ==
  [created |-> [db |-> db, result |-> NoList, raised |-> "none",
                handlers |-> <<>>, calls |-> <<>>, list_id |-> NoneId,
                write |-> "none"],
   handlers |-> << <<"generate_shopping_list_from_meal_plans", "error">> >>,
   calls |-> calls, plans |-> plans, ingredients_map |-> <<>>]

\* a call that an exception other than ValidationException and
\* DatabaseException leaves before any write
GenerateRaised(db, calls, plans, raised) ==
  [created |-> [db |-> db, result |-> NoList, raised |-> raised,
                handlers |-> <<>>, calls |-> <<>>, list_id |-> NoneId,
                write |-> "none"],
   handlers |-> <<>>,
   calls |-> calls, plans |-> plans, ingredients_map |-> <<>>]

\* lines 283-327: generate from the loop on, over the meal plans the range
\* query returned
GenerateLoop(db, name, start_date, end_date, fail, plans) ==
  Only({IF walked.raised = "DatabaseException"
        THEN GenerateError(db, walked.calls, plans)
        ELSE IF walked.raised # "none"
        THEN GenerateRaised(db, walked.calls, plans, walked.raised)
        ELSE GenerateFrom(db, name, start_date, end_date, fail, plans, walked) :
          walked \in {WalkPlans(plans, <<>>, <<"get_by_date_range">>)}})

\* generate without the check of the date range
GenerateUnvalidatedRange(db, name, start_date, end_date, fail) ==
  Only({IF plans = <<>>
        THEN GenerateError(db, <<"get_by_date_range">>, plans)
        ELSE GenerateLoop(db, name, start_date, end_date, fail, plans) :
          plans \in {get_by_date_range(start_date, end_date)}})

\* generate without the check for an empty range query
GenerateFromNoPlans(db, name, start_date, end_date, fail) ==
  IF start_date > end_date
  THEN GenerateError(db, <<>>, <<>>)
  ELSE GenerateLoop(db, name, start_date, end_date, fail,
                    get_by_date_range(start_date, end_date))

generate_shopping_list_from_meal_plans(db, name, start_date, end_date, fail) ==
  IF start_date > end_date
  THEN GenerateError(db, <<>>, <<>>)
  ELSE Only({IF plans = <<>>
             THEN GenerateError(db, <<"get_by_date_range">>, plans)
             ELSE GenerateLoop(db, name, start_date, end_date, fail, plans) :
               plans \in {get_by_date_range(start_date, end_date)}})

(***************************************************************************)
(* State machine.                                                          *)
(***************************************************************************)
DB == [shopping_lists |-> shopping_lists,
       shopping_list_items |-> shopping_list_items,
       session |-> session]

FailPoints == {"none", "flush", "commit"}

\* the meal_plans table: at most one row per (date, meal_type)
PlanRows == [date : Dates, meal_type : MealTypes, recipes : SUBSET RecipeIds]

UniqueSlots(plan_rows) ==
  \A i, j \in DOMAIN plan_rows :
     (plan_rows[i].date = plan_rows[j].date /\ plan_rows[i].meal_type = plan_rows[j].meal_type)
       => i = j

\* the rows of the ingredients table for recipes whose lines are lines_of[r],
\* with primary keys in the order of the recipes and of their lines
IngredientRows(lines_of, width) ==
  UNION {{[id |-> (r - 1) * width + i, recipe_id |-> r,
           name |-> lines_of[r][i].name, quantity |-> lines_of[r][i].quantity,
           unit |-> lines_of[r][i].unit, category |-> lines_of[r][i].category] :
            i \in 1..Len(lines_of[r])} : r \in DOMAIN lines_of}

\* the session of the recipe repository: recipe rows flushed inside its open
\* transaction, and ingredient rows deleted inside it
EmptyRecipeSession == [recipes |-> {}, deleted |-> {}]

NoCall ==
  [op |-> "none", name |-> NoneStr, start_date |-> 0, end_date |-> 0,
   fail |-> "none",
   date |-> 0, meal_type |-> NoneStr, id |-> NoneId,
   result |-> NoList, value |-> "None", success |-> FALSE, raised |-> "none",
   handlers |-> <<>>, calls |-> <<>>,
   list_id |-> NoneId, write |-> "none", removed |-> {},
   plans |-> <<>>, ingredients_map |-> <<>>, items_data |-> <<>>,
   is_purchased |-> FALSE, recipe_id |-> NoneId]

\* no call of a stepwise run is under way
NoRuns == <<>>

\* the application before startup: no thread, no scheduled task, nothing
\* shown, no init_db call made
NoApp ==
  [pc |-> "idle", error |-> "unbound", tasks |-> <<>>, events |-> <<>>,
   init_db |-> [max_retries |-> 0, faults |-> <<>>, attempts |-> 0,
                result |-> "none"]]

\* shopping lists stored before the first call of the model, some with an
\* item that was marked as purchased
StoredList(id) ==
  [id |-> id, name |-> "stored", date_range_start |-> 1, date_range_end |-> 1]

StoredItem(id) ==
  [id |-> id, shopping_list_id |-> id, ingredient_name |-> "milk",
   total_quantity |-> 1, unit |-> "l", category |-> "DAIRY", is_purchased |-> TRUE]

InitialStores(n) ==
  UNION {{[lists |-> {StoredList(i) : i \in 1..k},
           items |-> {StoredItem(i) : i \in with}] : with \in SUBSET (1..k)} :
           k \in 0..n}

MaxStored == 1

Init ==
  /\ recipes = RecipeIds
  /\ \E lines_of \in [RecipeIds -> SeqsUpTo(IngredientLines, MaxLines)] :
        ingredients = IngredientRows(lines_of, MaxLines)
  /\ meal_plans \in {ps \in SeqsUpTo(PlanRows, MaxPlans) : UniqueSlots(ps)}
  /\ \E store \in InitialStores(MaxStored) :
        /\ shopping_lists = store.lists
        /\ shopping_list_items = store.items
  /\ session = EmptySession
  /\ recipe_session = EmptyRecipeSession
  /\ last = NoCall
  /\ runs = NoRuns
  /\ app = NoApp

\* generate with one of the meal plans of the range deleted by the call
GenerateConsuming(name, start_date, end_date, fail) ==
  /\ \E r \in {generate_shopping_list_from_meal_plans(DB, name, start_date, end_date, fail)} :
       \E c \in {r.created} :
        /\ shopping_lists' = c.db.shopping_lists
        /\ shopping_list_items' = c.db.shopping_list_items
        /\ session' = c.db.session
        /\ last' = [NoCall EXCEPT
                      !.op = "generate", !.name = name,
                      !.start_date = start_date, !.end_date = end_date,
                      !.fail = fail,
                      !.result = c.result, !.raised = c.raised,
                      !.handlers = r.handlers \o c.handlers,
                      !.calls = r.calls \o c.calls,
                      !.list_id = c.list_id, !.write = c.write,
                      !.plans = r.plans, !.ingredients_map = r.ingredients_map,
                      !.items_data = BuildItems(r.ingredients_map)]
        /\ meal_plans' = IF r.plans = <<>> THEN meal_plans
                         ELSE [p \in PlanIds \ {r.plans[1]} |-> meal_plans[p]]
  /\ UNCHANGED <<app, recipes, ingredients, recipe_session, runs>>

\* generate that rolls the session of the shopping-list repository back and
\* empties the store when it fails
GenerateClearing(name, start_date, end_date, fail) ==
  /\ \E r \in {generate_shopping_list_from_meal_plans(DB, name, start_date, end_date, fail)} :
       \E c \in {r.created} :
        /\ shopping_lists' = IF c.result = NoList THEN {} ELSE c.db.shopping_lists
        /\ shopping_list_items' = IF c.result = NoList THEN {} ELSE c.db.shopping_list_items
        /\ session' = c.db.session
        /\ last' = [NoCall EXCEPT
                      !.op = "generate", !.name = name,
                      !.start_date = start_date, !.end_date = end_date,
                      !.fail = fail,
                      !.result = c.result, !.raised = c.raised,
                      !.handlers = r.handlers \o c.handlers,
                      !.calls = r.calls \o c.calls,
                      !.list_id = c.list_id, !.write = c.write,
                      !.plans = r.plans, !.ingredients_map = r.ingredients_map,
                      !.items_data = BuildItems(r.ingredients_map)]
  /\ UNCHANGED <<app, recipes, ingredients, meal_plans, recipe_session, runs>>

\* one call of generate_shopping_list_from_meal_plans, to its return or raise
Generate(name, start_date, end_date, fail) ==
  /\ \E r \in {generate_shopping_list_from_meal_plans(DB, name, start_date, end_date, fail)} :
       \E c \in {r.created} :
        /\ shopping_lists' = c.db.shopping_lists
        /\ shopping_list_items' = c.db.shopping_list_items
        /\ session' = c.db.session
        /\ last' = [NoCall EXCEPT
                      !.op = "generate", !.name = name,
                      !.start_date = start_date, !.end_date = end_date,
                      !.fail = fail,
                      !.result = c.result, !.raised = c.raised,
                      !.handlers = r.handlers \o c.handlers,
                      !.calls = r.calls \o c.calls,
                      !.list_id = c.list_id, !.write = c.write,
                      !.plans = r.plans, !.ingredients_map = r.ingredients_map,
                      !.items_data = BuildItems(r.ingredients_map)]
  /\ UNCHANGED <<app, recipes, ingredients, meal_plans, recipe_session, runs>>

Next ==
  \E name \in ListNames, start_date \in Dates, end_date \in Dates, fail \in FailPoints :
     Generate(name, start_date, end_date, fail)

Spec == Init /\ [][Next]_vars

(***************************************************************************)
(* The shopping-list store alone: create_shopping_list and                 *)
(* delete_shopping_list called in any order.                               *)
(***************************************************************************)
StoreMaxStored == 2
StoreMaxLists == 3

\* item dicts a caller passes to create_shopping_list
ItemDicts ==
  { [ingredient_name |-> n, total_quantity |-> 2, unit |-> "g",
     category |-> "OTHER", is_purchased |-> FALSE] : n \in {"egg", " "} }

InitStore ==
  /\ recipes = {}
  /\ ingredients = {}
  /\ meal_plans = <<>>
  /\ \E store \in InitialStores(StoreMaxStored) :
        /\ shopping_lists = store.lists
        /\ shopping_list_items = store.items
  /\ session = EmptySession
  /\ recipe_session = EmptyRecipeSession
  /\ last = NoCall
  /\ runs = NoRuns
  /\ app = NoApp

\* one call of create_shopping_list, to its return or raise
CreateShoppingList(name, start_date, end_date, items_data, fail) ==
  /\ Cardinality(VisibleLists(DB)) < StoreMaxLists
  /\ \E c \in {create_shopping_list(DB, [name |-> name,
                                          date_range_start |-> start_date,
                                          date_range_end |-> end_date],
                                    items_data, fail)} :
        /\ shopping_lists' = c.db.shopping_lists
        /\ shopping_list_items' = c.db.shopping_list_items
        /\ session' = c.db.session
        /\ last' = [NoCall EXCEPT
                      !.op = "create_shopping_list", !.name = name,
                      !.start_date = start_date, !.end_date = end_date,
                      !.fail = fail,
                      !.result = c.result, !.raised = c.raised,
                      !.handlers = c.handlers, !.calls = c.calls,
                      !.list_id = c.list_id, !.write = c.write,
                      !.items_data = items_data]
  /\ UNCHANGED <<app, recipes, ingredients, meal_plans, recipe_session, runs>>

\* one call of delete_shopping_list
DeleteShoppingList(shopping_list_id, fail) ==
  /\ \E c \in {delete_shopping_list(DB, shopping_list_id, fail)} :
        /\ shopping_lists' = c.db.shopping_lists
        /\ shopping_list_items' = c.db.shopping_list_items
        /\ session' = c.db.session
        /\ last' = [NoCall EXCEPT
                      !.op = "delete_shopping_list",
                      !.fail = fail,
                      !.success = c.result, !.raised = c.raised,
                      !.handlers = c.handlers, !.calls = c.calls,
                      !.list_id = shopping_list_id,
                      !.removed = ItemsOfList(DB, shopping_list_id)]
  /\ UNCHANGED <<app, recipes, ingredients, meal_plans, recipe_session, runs>>

NextStore ==
  \/ \E name \in ListNames, start_date \in Dates, end_date \in Dates,
        items_data \in SeqsUpTo(ItemDicts, 1), fail \in FailPoints :
       CreateShoppingList(name, start_date, end_date, items_data, fail)
  \/ \E shopping_list_id \in 1..StoreMaxLists, fail \in {"none", "commit"} :
       DeleteShoppingList(shopping_list_id, fail)

SpecStore == InitStore /\ [][NextStore]_vars

(***************************************************************************)
(* The aggregation loop alone, applied to the meal plans of the whole      *)
(* calendar walked in an arbitrary order: the plans in any order, the      *)
(* recipes of each plan in any order.                                      *)
(***************************************************************************)
AggMaxRecipes == 2
AggMaxLines == 2
AggMaxPlans == 2

\* float quantities on both sides of the magnitude where the spacing of
\* representable values exceeds one
AggIngredientLines ==
  { [name |-> "egg", quantity |-> q, unit |-> "g", category |-> "OTHER"] :
      q \in {1, Pow2(MantissaBits)} }

Orderings(S) ==
  {f \in [1..Cardinality(S) -> S] : \A i, j \in 1..Cardinality(S) : f[i] = f[j] => i = j}

InitAgg ==
  /\ recipes = 1..AggMaxRecipes
  /\ \E lines_of \in [1..AggMaxRecipes -> SeqsUpTo(AggIngredientLines, AggMaxLines)] :
        ingredients = IngredientRows(lines_of, AggMaxLines)
  /\ meal_plans \in {ps \in SeqsUpTo([date : {1}, meal_type : MealTypes,
                                      recipes : SUBSET (1..AggMaxRecipes)], AggMaxPlans) :
                       UniqueSlots(ps)}
  /\ shopping_lists = {}
  /\ shopping_list_items = {}
  /\ session = EmptySession
  /\ recipe_session = EmptyRecipeSession
  /\ last = NoCall
  /\ runs = NoRuns
  /\ app = NoApp

AggregateInOrder(plan_seq, recipe_order) ==
  /\ last' = [NoCall EXCEPT !.op = "aggregate",
                            !.plans = plan_seq,
                            !.ingredients_map = Aggregate(plan_seq, recipe_order),
                            !.items_data = BuildItems(Aggregate(plan_seq, recipe_order))]
  /\ UNCHANGED <<app, recipes, ingredients, meal_plans, shopping_lists, shopping_list_items,
                 session, recipe_session, runs>>

NextAgg ==
  \E plan_seq \in Orderings(PlanIds) :
    \E recipe_order \in [PlanIds -> UNION {Orderings(T) : T \in SUBSET (1..AggMaxRecipes)}] :
      /\ \A p \in PlanIds :
            {recipe_order[p][i] : i \in 1..Len(recipe_order[p])} = meal_plans[p].recipes
      /\ AggregateInOrder(plan_seq, recipe_order)

SpecAgg == InitAgg /\ [][NextAgg]_vars

(***************************************************************************)
(* Meal plans: repository and view model.                                  *)
(***************************************************************************)
\* the meal_plans table without the row of primary key id; the rows of
\* meal_plan_recipes that refer to it go with it (ON DELETE CASCADE)
WithoutPlan(plans, id) == [p \in (DOMAIN plans) \ {id} |-> plans[p]]

\* MealPlanViewModel.delete_meal_plan: get_by_id, then BaseRepository.delete
\* (get_by_id, session.delete, commit); result is the bool returned
delete_meal_plan(plans, meal_plan_id, fail) ==
  IF meal_plan_id \notin DOMAIN plans
  THEN [meal_plans |-> plans, result |-> FALSE, raised |-> "none",
        handlers |-> << <<"delete_meal_plan", "error">> >>,
        calls |-> <<"get_by_id">>]
  ELSE IF fail # "none"
  THEN [meal_plans |-> plans, result |-> FALSE, raised |-> "none",
        handlers |-> << <<"delete_meal_plan", "error">> >>,
        calls |-> <<"get_by_id", "delete">>]
  ELSE [meal_plans |-> WithoutPlan(plans, meal_plan_id), result |-> TRUE,
        raised |-> "none",
        handlers |-> << <<"delete_meal_plan", "success">> >>,
        calls |-> <<"get_by_id", "delete">>]

\* one call of delete_meal_plan
DeleteMealPlan(meal_plan_id, fail) ==
  /\ \E c \in {delete_meal_plan(meal_plans, meal_plan_id, fail)} :
        /\ meal_plans' = c.meal_plans
        /\ last' = [NoCall EXCEPT
                      !.op = "delete_meal_plan", !.fail = fail, !.id = meal_plan_id,
                      !.success = c.result, !.raised = c.raised,
                      !.handlers = c.handlers, !.calls = c.calls]
  /\ UNCHANGED <<app, recipes, ingredients, shopping_lists, shopping_list_items,
                 session, recipe_session, runs>>

(***************************************************************************)
(* Calls of generate that run step by step: the range query is one step,   *)
(* the loop over its result with the write is another, and other calls     *)
(* (of generate, of delete_meal_plan) take place in between.               *)
(***************************************************************************)
MaxRuns == 2

\* one ingredient line per recipe
RunLines == [r \in RecipeIds |->
               << [name |-> "egg", quantity |-> 2, unit |-> "g", category |-> "OTHER"] >>]

InitRuns ==
  /\ recipes = RecipeIds
  /\ ingredients = IngredientRows(RunLines, MaxLines)
  /\ meal_plans \in {ps \in SeqsUpTo(PlanRows, MaxPlans) : UniqueSlots(ps)}
  /\ shopping_lists = {}
  /\ shopping_list_items = {}
  /\ session = EmptySession
  /\ recipe_session = EmptyRecipeSession
  /\ last = NoCall
  /\ runs = NoRuns
  /\ app = NoApp

\* a call of generate that has reached the loop over plans
RunAtLoop(name, start_date, end_date, plans) ==
  [pc |-> "loop", name |-> name, start_date |-> start_date, end_date |-> end_date,
   plans |-> plans, at_query |-> meal_plans, at_loop |-> {},
   concurrent |-> {i \in DOMAIN runs : runs[i].pc = "loop"},
   result |-> NoList, raised |-> "none", handlers |-> <<>>,
   calls |-> <<"get_by_date_range">>, list_id |-> NoneId, write |-> "none",
   ingredients_map |-> <<>>]

\* a call of generate that has returned or raised; r is what
\* generate_shopping_list_from_meal_plans or GenerateLoop yields
RunDone(run, r) ==
  [run EXCEPT !.pc = "done",
              !.at_loop = PlanIds,
              !.result = r.created.result, !.raised = r.created.raised,
              !.handlers = r.handlers \o r.created.handlers,
              !.calls = r.calls \o r.created.calls,
              !.list_id = r.created.list_id, !.write = r.created.write,
              !.ingredients_map = r.ingredients_map]

\* lines 273-281 of a new call: the check of the range and the range query
RunQuery(name, start_date, end_date) ==
  /\ Len(runs) < MaxRuns
  /\ \E plans \in {IF start_date > end_date THEN <<>>
                   ELSE get_by_date_range(start_date, end_date)} :
        runs' = Append(runs,
                  IF plans = <<>>
                  THEN RunDone(RunAtLoop(name, start_date, end_date, plans),
                               generate_shopping_list_from_meal_plans(
                                 DB, name, start_date, end_date, "none"))
                  ELSE RunAtLoop(name, start_date, end_date, plans))
  /\ UNCHANGED <<app, recipes, ingredients, meal_plans, shopping_lists,
                 shopping_list_items, session, recipe_session, last>>

\* lines 283-327 of the call i: the loop and the write
RunLoop(i, fail) ==
  /\ i \in DOMAIN runs
  /\ runs[i].pc = "loop"
  /\ \E r \in {GenerateLoop(DB, runs[i].name, runs[i].start_date, runs[i].end_date,
                            fail, runs[i].plans)} :
        /\ runs' = [runs EXCEPT ![i] = RunDone(runs[i], r)]
        /\ shopping_lists' = r.created.db.shopping_lists
        /\ shopping_list_items' = r.created.db.shopping_list_items
        /\ session' = r.created.db.session
  /\ UNCHANGED <<app, recipes, ingredients, meal_plans, recipe_session, last>>

NextRuns ==
  \/ \E name \in ListNames, start_date \in Dates, end_date \in Dates :
       RunQuery(name, start_date, end_date)
  \/ \E i \in 1..MaxRuns, fail \in FailPoints : RunLoop(i, fail)
  \/ \E meal_plan_id \in 1..MaxPlans : DeleteMealPlan(meal_plan_id, "none")

SpecRuns == InitRuns /\ [][NextRuns]_vars

(***************************************************************************)
(* create_meal_plan and update_meal_plan.  Each is two steps, the check of *)
(* the slot and the write, so that calls interleave between them.          *)
(***************************************************************************)
PlanMaxId == 2
PlanMaxCalls == 2

\* a meal_plans table without the unique constraint
SlotNeverTaken(plans, id, date_val, meal_type) == FALSE

\* a row of primary key other than id holds the slot: the unique constraint
\* uq_meal_plan_date_type refuses a second one
SlotTaken(plans, id, date_val, meal_type) ==
  \E p \in (DOMAIN plans) \ {id} :
     plans[p].date = date_val /\ plans[p].meal_type = meal_type

\* INTEGER PRIMARY KEY of SQLite for a new row of meal_plans
NextPlanId(plans) == 1 + Max((DOMAIN plans) \cup {0})

\* the data dicts passed to create_meal_plan
PlanCreateData ==
  [name : ListNames, date : Dates, meal_type : MealTypes, recipe_ids : {RecipeIds}]

\* the data dicts passed to update_meal_plan; keys holds the keys present
PlanUpdateData ==
  {data \in [keys : {{"name"}, {"date"}, {"meal_type"}, {"date", "meal_type"},
                     {"name", "recipe_ids"}},
             date : Dates \cup {0}, meal_type : MealTypes \cup {NoneStr},
             recipe_ids : {{}}] :
     /\ "date" \in data.keys <=> data.date # 0
     /\ "meal_type" \in data.keys <=> data.meal_type # NoneStr}

\* what a call of the meal-plan view model leaves behind
PlanOutcome(plans, value, raised, handler, calls) ==
  [meal_plans |-> plans, value |-> value, raised |-> raised,
   handlers |-> IF handler = "none" THEN <<>> ELSE << handler >>,
   calls |-> calls]

\* lines 29-40 of create_meal_plan: "ValidationException" or
\* "DatabaseException" when the call ends here, "none" when it goes on
create_meal_plan_check(data) ==
  IF IsBlank(data.name) THEN "ValidationException"
  ELSE IF get_by_date_and_meal_type(data.date, data.meal_type) = "DatabaseException"
  THEN "DatabaseException"
  ELSE "none"

\* the recipes of a new meal plan after the calls of add_recipe_to_meal_plan:
\* an id without a recipe row is skipped
AddRecipes(recipe_ids) == recipe_ids \cap recipes

\* lines 42-65 of create_meal_plan: BaseRepository.create,
\* add_recipe_to_meal_plan for every recipe id, get_with_recipes
create_meal_plan_write(plans, data, fail) ==
  IF fail # "none" \/ SlotTaken(plans, NoneId, data.date, data.meal_type)
  THEN PlanOutcome(plans, "None", "none", <<"create_meal_plan", "error">>,
                   <<"get_by_date_and_meal_type", "create">>)
  ELSE LET id == NextPlanId(plans)
           created == [p \in (DOMAIN plans) \cup {id} |->
                         IF p = id
                         THEN [date |-> data.date, meal_type |-> data.meal_type,
                               recipes |-> AddRecipes(data.recipe_ids)]
                         ELSE plans[p]]
       IN PlanOutcome(created, "None", "none", <<"create_meal_plan", "error">>,
                      <<"get_by_date_and_meal_type", "create">>
                        \o [i \in 1..Cardinality(data.recipe_ids) |-> "add_recipe_to_meal_plan"]
                        \o <<"get_with_recipes">>)

\* the slot that update_meal_plan looks up at lines 76-102
TargetSlot(plan, data) ==
  [date |-> IF "date" \in data.keys THEN data.date ELSE plan.date,
   meal_type |-> IF "meal_type" \in data.keys THEN data.meal_type ELSE plan.meal_type]

\* lines 70-102 of update_meal_plan
update_meal_plan_check(plans, meal_plan_id, data) ==
  IF meal_plan_id \notin DOMAIN plans THEN "ValidationException"
  ELSE IF data.keys \cap {"date", "meal_type"} = {} THEN "none"
  ELSE LET slot == TargetSlot(plans[meal_plan_id], data)
       IN IF get_by_date_and_meal_type(slot.date, slot.meal_type) = "DatabaseException"
          THEN "DatabaseException"
          ELSE "none"

\* lines 104-143 of update_meal_plan.  MealPlanUpdate declares
\* "date: Optional[date] = None": the default is bound to the name date
\* before the annotation is evaluated, so the field has the type None and a
\* date value is refused with pydantic's ValidationError, which the except
\* clause does not list.
update_meal_plan_write(plans, meal_plan_id, data, fail) ==
  LET looked_up == IF data.keys \cap {"date", "meal_type"} = {}
                   THEN <<"get_by_id">>
                   ELSE <<"get_by_id", "get_by_date_and_meal_type">>
  IN IF "date" \in data.keys
     THEN PlanOutcome(plans, "None", "ValidationError", "none", looked_up)
     ELSE IF meal_plan_id \notin DOMAIN plans
     THEN PlanOutcome(plans, "None",
                      IF "recipe_ids" \in data.keys THEN "AttributeError"
                      ELSE "ValidationError",
                      "none", looked_up \o <<"update", "get_with_recipes">>)
     ELSE IF "meal_type" \notin data.keys
     THEN PlanOutcome(plans, "None", "none", <<"update_meal_plan", "error">>,
                      looked_up \o <<"update", "get_with_recipes">>)
     ELSE IF \/ fail # "none"
             \/ SlotTaken(plans, meal_plan_id, plans[meal_plan_id].date, data.meal_type)
     THEN PlanOutcome(plans, "None", "none", <<"update_meal_plan", "error">>,
                      looked_up \o <<"update">>)
     ELSE PlanOutcome([plans EXCEPT ![meal_plan_id].meal_type = data.meal_type],
                      "None", "none", <<"update_meal_plan", "error">>,
                      looked_up \o <<"update", "get_with_recipes">>)

\* the record of a finished call of the meal-plan view model
PlanCall(op, meal_plan_id, data, fail, outcome) ==
  [NoCall EXCEPT !.op = op, !.id = meal_plan_id, !.name = data.name,
                 !.date = data.date, !.meal_type = data.meal_type,
                 !.fail = fail, !.value = outcome.value, !.raised = outcome.raised,
                 !.handlers = outcome.handlers, !.calls = outcome.calls]

\* a call that ended in its check
CheckFailed(op, raised, calls) ==
  PlanOutcome(meal_plans, "None", "none", <<op, "error">>, calls)

Without(calls, i) ==
  [k \in 1..(Len(calls) - 1) |-> IF k < i THEN calls[k] ELSE calls[k + 1]]

InitPlans ==
  /\ recipes = RecipeIds
  /\ ingredients = {}
  /\ meal_plans = <<>>
  /\ shopping_lists = {}
  /\ shopping_list_items = {}
  /\ session = EmptySession
  /\ recipe_session = EmptyRecipeSession
  /\ last = NoCall
  /\ runs = NoRuns
  /\ app = NoApp

\* create_meal_plan up to the check of the slot
CreateMealPlanCheck(data) ==
  /\ Len(runs) < PlanMaxCalls
  /\ \E raised \in {create_meal_plan_check(data)} :
        IF raised = "none"
        THEN /\ runs' = Append(runs, [op |-> "create_meal_plan", id |-> NoneId,
                                      data |-> data])
             /\ last' = last
        ELSE /\ runs' = runs
             /\ last' = PlanCall("create_meal_plan", NoneId, data, "none",
                          CheckFailed("create_meal_plan", raised,
                                      IF raised = "ValidationException" THEN <<>>
                                      ELSE <<"get_by_date_and_meal_type">>))
  /\ UNCHANGED <<app, recipes, ingredients, meal_plans, shopping_lists,
                 shopping_list_items, session, recipe_session>>

\* create_meal_plan from the write on
CreateMealPlanWrite(i, fail) ==
  /\ i \in DOMAIN runs
  /\ runs[i].op = "create_meal_plan"
  /\ NextPlanId(meal_plans) <= PlanMaxId
  /\ \E c \in {create_meal_plan_write(meal_plans, runs[i].data, fail)} :
        /\ meal_plans' = c.meal_plans
        /\ last' = PlanCall("create_meal_plan", NoneId, runs[i].data, fail, c)
  /\ runs' = Without(runs, i)
  /\ UNCHANGED <<app, recipes, ingredients, shopping_lists, shopping_list_items,
                 session, recipe_session>>

\* update_meal_plan up to the check of the slot
UpdateMealPlanCheck(meal_plan_id, data) ==
  /\ Len(runs) < PlanMaxCalls
  /\ \E raised \in {update_meal_plan_check(meal_plans, meal_plan_id, data)} :
        IF raised = "none"
        THEN /\ runs' = Append(runs, [op |-> "update_meal_plan", id |-> meal_plan_id,
                                      data |-> data])
             /\ last' = last
        ELSE /\ runs' = runs
             /\ last' = PlanCall("update_meal_plan", meal_plan_id,
                          [data EXCEPT !.keys = {}] @@ [name |-> NoneStr], "none",
                          CheckFailed("update_meal_plan", raised,
                                      IF raised = "ValidationException" THEN <<"get_by_id">>
                                      ELSE <<"get_by_id", "get_by_date_and_meal_type">>))
  /\ UNCHANGED <<app, recipes, ingredients, meal_plans, shopping_lists,
                 shopping_list_items, session, recipe_session>>

\* update_meal_plan from the construction of MealPlanUpdate on
UpdateMealPlanWrite(i, fail) ==
  /\ i \in DOMAIN runs
  /\ runs[i].op = "update_meal_plan"
  /\ \E c \in {update_meal_plan_write(meal_plans, runs[i].id, runs[i].data, fail)} :
        /\ meal_plans' = c.meal_plans
        /\ last' = PlanCall("update_meal_plan", runs[i].id,
                            [runs[i].data EXCEPT !.keys = {}] @@ [name |-> NoneStr], fail, c)
  /\ runs' = Without(runs, i)
  /\ UNCHANGED <<app, recipes, ingredients, shopping_lists, shopping_list_items,
                 session, recipe_session>>

NextPlans ==
  \/ \E data \in PlanCreateData : CreateMealPlanCheck(data)
  \/ \E i \in 1..PlanMaxCalls, fail \in {"none", "commit"} : CreateMealPlanWrite(i, fail)
  \/ \E meal_plan_id \in 1..PlanMaxId, data \in PlanUpdateData :
       UpdateMealPlanCheck(meal_plan_id, data)
  \/ \E i \in 1..PlanMaxCalls, fail \in {"none", "commit"} : UpdateMealPlanWrite(i, fail)
  \/ \E meal_plan_id \in 1..PlanMaxId, fail \in {"none", "commit"} :
       DeleteMealPlan(meal_plan_id, fail)

SpecPlans == InitPlans /\ [][NextPlans]_vars

(***************************************************************************)
(* Recipes and ingredient lines: repository and view model.                *)
(***************************************************************************)
RecMaxRecipes == 2
RecMaxId == 3

RDB == [recipes |-> recipes, ingredients |-> ingredients,
        meal_plans |-> meal_plans, session |-> recipe_session]

\* what a query on the session of the recipe repository returns
VisibleRecipes(rdb) == rdb.recipes \cup rdb.session.recipes
VisibleIngredients(rdb) == {row \in rdb.ingredients : row.id \notin rdb.session.deleted}

\* INTEGER PRIMARY KEY of SQLite for a new row of recipes
NextRecipeId(rdb) == 1 + Max(VisibleRecipes(rdb) \cup {0})

\* session.rollback() and session.commit() of the recipe repository
RecipeRollback(rdb) == [rdb EXCEPT !.session = EmptyRecipeSession]

RecipeCommit(rdb) ==
  [rdb EXCEPT !.recipes = VisibleRecipes(rdb),
              !.ingredients = VisibleIngredients(rdb),
              !.session = EmptyRecipeSession]

\* the recipes and ingredients tables after the DELETE of the recipe row:
\* the rows of ingredients and meal_plan_recipes that refer to it stay
DeleteKeepingLines(rdb, recipe_id) ==
  [rdb EXCEPT !.recipes = @ \ {recipe_id}]

\* the tables after the flush of session.delete(recipe): the ingredient rows
\* go by the cascade of Recipe.ingredients, the rows of meal_plan_recipes
\* with the collection Recipe.meal_plans
DeleteCascading(rdb, recipe_id) ==
  [rdb EXCEPT !.recipes = @ \ {recipe_id},
              !.ingredients = {row \in @ : row.recipe_id # recipe_id},
              !.meal_plans = [p \in DOMAIN @ |->
                                [@[p] EXCEPT !.recipes = @ \ {recipe_id}]]]

\* the ingredient dicts passed to the view model
IngredientDicts ==
  { [name |-> n, quantity |-> 2, unit |-> "g", category |-> "OTHER"] : n \in {"egg", " "} }

\* validate_required_fields over the ingredient dicts
BlankIngredient(ingredients_data) ==
  \E i \in 1..Len(ingredients_data) : IsBlank(ingredients_data[i].name)

\* what a call of the recipe view model leaves behind
RecipeOutcome(rdb, success, raised, handler, calls) ==
  [rdb |-> rdb, success |-> success, raised |-> raised,
   handlers |-> IF handler = "none" THEN <<>> ELSE << handler >>,
   calls |-> calls]

\* RecipeRepository.create_with_ingredients.  The dicts of
\* IngredientCreate.model_dump() carry the key recipe_id, so
\* Ingredient(recipe_id=recipe.id, **ingredient_data) raises TypeError for
\* the first of them, after the flush of the recipe and without rollback.
create_with_ingredients(rdb, ingredients_data, fail) ==
  LET flushed == [rdb EXCEPT !.session.recipes = @ \cup {NextRecipeId(rdb)}]
  IN IF fail = "flush"
     THEN [rdb |-> RecipeRollback(rdb), raised |-> "DatabaseException"]
     ELSE IF ingredients_data # <<>>
     THEN [rdb |-> flushed, raised |-> "TypeError"]
     ELSE IF fail = "commit"
     THEN [rdb |-> RecipeRollback(rdb), raised |-> "DatabaseException"]
     ELSE [rdb |-> RecipeCommit(flushed), raised |-> "none"]

\* RecipeViewModel.create_recipe; after the commit get_with_ingredients
\* finds the row and raises DatabaseException
create_recipe(rdb, name, ingredients_data, fail) ==
  IF IsBlank(name) \/ BlankIngredient(ingredients_data)
  THEN RecipeOutcome(rdb, FALSE, "none", <<"create_recipe", "error">>, <<>>)
  ELSE LET written == create_with_ingredients(rdb, ingredients_data, fail)
       IN IF written.raised = "TypeError"
          THEN RecipeOutcome(written.rdb, FALSE, "TypeError", "none",
                             <<"create_with_ingredients">>)
          ELSE IF written.raised = "DatabaseException"
          THEN RecipeOutcome(written.rdb, FALSE, "none", <<"create_recipe", "error">>,
                             <<"create_with_ingredients">>)
          ELSE RecipeOutcome(written.rdb, FALSE, "none", <<"create_recipe", "error">>,
                             <<"create_with_ingredients", "get_with_ingredients">>)

\* RecipeRepository.update_with_ingredients: the bulk delete of the lines of
\* the recipe, then one Ingredient per dict (TypeError, as above), commit
update_with_ingredients(rdb, recipe_id, ingredients_data, fail) ==
  LET deleted == [rdb EXCEPT !.session.deleted =
                    @ \cup {row.id : row \in {x \in rdb.ingredients : x.recipe_id = recipe_id}}]
  IN IF ingredients_data # <<>>
     THEN [rdb |-> deleted, raised |-> "TypeError"]
     ELSE IF fail # "none"
     THEN [rdb |-> RecipeRollback(rdb), raised |-> "DatabaseException"]
     ELSE [rdb |-> RecipeCommit(deleted), raised |-> "none"]

\* BaseRepository.update for the Recipe model
update(rdb, recipe_id, fail) ==
  IF fail # "none"
  THEN [rdb |-> RecipeRollback(rdb), raised |-> "DatabaseException"]
  ELSE [rdb |-> RecipeCommit(rdb), raised |-> "none"]

\* RecipeViewModel.update_recipe; given is FALSE when ingredients_data is
\* None
update_recipe(rdb, recipe_id, given, ingredients_data, fail) ==
  IF recipe_id \notin VisibleRecipes(rdb)
  THEN RecipeOutcome(rdb, FALSE, "none", <<"update_recipe", "error">>, <<"get_by_id">>)
  ELSE IF given /\ BlankIngredient(ingredients_data)
  THEN RecipeOutcome(rdb, FALSE, "none", <<"update_recipe", "error">>, <<"get_by_id">>)
  ELSE LET written == IF given
                      THEN update_with_ingredients(rdb, recipe_id, ingredients_data, fail)
                      ELSE update(rdb, recipe_id, fail)
           write_call == IF given THEN "update_with_ingredients" ELSE "update"
       IN IF written.raised = "TypeError"
          THEN RecipeOutcome(written.rdb, FALSE, "TypeError", "none",
                             <<"get_by_id", write_call>>)
          ELSE IF written.raised = "DatabaseException"
          THEN RecipeOutcome(written.rdb, FALSE, "none", <<"update_recipe", "error">>,
                             <<"get_by_id", write_call>>)
          ELSE RecipeOutcome(written.rdb, FALSE, "none", <<"update_recipe", "error">>,
                             <<"get_by_id", write_call, "get_with_ingredients">>)

\* RecipeViewModel.add_ingredient: RecipeRepository.add_ingredient raises
\* TypeError at Ingredient(recipe_id=recipe_id, **ingredient_data)
add_ingredient(rdb, recipe_id, ingredient_data) ==
  IF recipe_id \notin VisibleRecipes(rdb)
  THEN RecipeOutcome(rdb, FALSE, "none", <<"add_ingredient", "error">>, <<"get_by_id">>)
  ELSE IF IsBlank(ingredient_data.name)
  THEN RecipeOutcome(rdb, FALSE, "none", <<"add_ingredient", "error">>, <<"get_by_id">>)
  ELSE RecipeOutcome(rdb, FALSE, "TypeError", "none", <<"get_by_id", "add_ingredient">>)

\* RecipeViewModel.remove_ingredient over RecipeRepository.remove_ingredient
remove_ingredient(rdb, ingredient_id, fail) ==
  IF ~\E row \in VisibleIngredients(rdb) : row.id = ingredient_id
  THEN RecipeOutcome(rdb, FALSE, "none", <<"remove_ingredient", "error">>,
                     <<"remove_ingredient">>)
  ELSE IF fail # "none"
  THEN RecipeOutcome(RecipeRollback(rdb), FALSE, "none", <<"remove_ingredient", "error">>,
                     <<"remove_ingredient">>)
  ELSE RecipeOutcome([RecipeCommit(rdb) EXCEPT
                        !.ingredients = {row \in @ : row.id # ingredient_id}],
                     TRUE, "none", <<"remove_ingredient", "success">>,
                     <<"remove_ingredient">>)

\* RecipeViewModel.delete_recipe over BaseRepository.delete
delete_recipe(rdb, recipe_id, fail) ==
  IF recipe_id \notin VisibleRecipes(rdb)
  THEN RecipeOutcome(rdb, FALSE, "none", <<"delete_recipe", "error">>, <<"get_by_id">>)
  ELSE IF fail # "none"
  THEN RecipeOutcome(RecipeRollback(rdb), FALSE, "none", <<"delete_recipe", "error">>,
                     <<"get_by_id", "delete">>)
  ELSE RecipeOutcome(DeleteCascading(RecipeCommit(rdb), recipe_id),
                     TRUE, "none", <<"delete_recipe", "success">>,
                     <<"get_by_id", "delete">>)

\* the step of a call of the recipe view model with outcome c
RecipeStep(op, id, fail, removed, c) ==
  /\ recipes' = c.rdb.recipes
  /\ ingredients' = c.rdb.ingredients
  /\ meal_plans' = c.rdb.meal_plans
  /\ recipe_session' = c.rdb.session
  /\ last' = [NoCall EXCEPT !.op = op, !.id = id, !.fail = fail,
                            !.success = c.success, !.raised = c.raised,
                            !.handlers = c.handlers, !.calls = c.calls,
                            !.removed = removed]
  /\ UNCHANGED <<app, shopping_lists, shopping_list_items, session, runs>>

InitRecipes ==
  /\ recipes = 1..RecMaxRecipes
  /\ \E lines_of \in [1..RecMaxRecipes -> SeqsUpTo(IngredientLines, MaxLines)] :
        ingredients = IngredientRows(lines_of, MaxLines)
  /\ meal_plans = << [date |-> 1, meal_type |-> "BREAKFAST", recipes |-> 1..RecMaxRecipes] >>
  /\ shopping_lists = {}
  /\ shopping_list_items = {}
  /\ session = EmptySession
  /\ recipe_session = EmptyRecipeSession
  /\ last = NoCall
  /\ runs = NoRuns
  /\ app = NoApp

CreateRecipe(name, ingredients_data, fail) ==
  /\ NextRecipeId(RDB) <= RecMaxId
  /\ \E c \in {create_recipe(RDB, name, ingredients_data, fail)} :
        RecipeStep("create_recipe", NoneId, fail, {}, c)

UpdateRecipe(recipe_id, given, ingredients_data, fail) ==
  \E c \in {update_recipe(RDB, recipe_id, given, ingredients_data, fail)} :
     RecipeStep("update_recipe", recipe_id, fail, {}, c)

AddIngredientToRecipe(recipe_id, ingredient_data) ==
  \E c \in {add_ingredient(RDB, recipe_id, ingredient_data)} :
     RecipeStep("add_ingredient", recipe_id, "none", {}, c)

RemoveIngredient(ingredient_id, fail) ==
  \E c \in {remove_ingredient(RDB, ingredient_id, fail)} :
     RecipeStep("remove_ingredient", ingredient_id, fail, {}, c)

DeleteRecipe(recipe_id, fail) ==
  \E c \in {delete_recipe(RDB, recipe_id, fail)} :
     RecipeStep("delete_recipe", recipe_id, fail,
                {row \in ingredients : row.recipe_id = recipe_id}, c)

\* the argument ingredients_data of update_recipe: None, or a list of dicts
RecipeUpdateArgs ==
  {[given |-> FALSE, ingredients_data |-> <<>>]} \cup
  {[given |-> TRUE, ingredients_data |-> d] : d \in SeqsUpTo(IngredientDicts, 1)}

NextRecipes ==
  \/ \E name \in ListNames, ingredients_data \in SeqsUpTo(IngredientDicts, 1),
        fail \in FailPoints :
       CreateRecipe(name, ingredients_data, fail)
  \/ \E recipe_id \in 1..RecMaxId, args \in RecipeUpdateArgs, fail \in {"none", "commit"} :
       UpdateRecipe(recipe_id, args.given, args.ingredients_data, fail)
  \/ \E recipe_id \in 1..RecMaxId, ingredient_data \in IngredientDicts :
       AddIngredientToRecipe(recipe_id, ingredient_data)
  \/ \E ingredient_id \in 1..(RecMaxRecipes * MaxLines), fail \in {"none", "commit"} :
       RemoveIngredient(ingredient_id, fail)
  \/ \E recipe_id \in 1..RecMaxId, fail \in {"none", "commit"} :
       DeleteRecipe(recipe_id, fail)

SpecRecipes == InitRecipes /\ [][NextRecipes]_vars


(***************************************************************************)
(* ShoppingListViewModel over a store of lists: create_shopping_list,      *)
(* update_shopping_list, mark_item_as_purchased, delete_shopping_list and  *)
(* generate_shopping_list_from_meal_plans called one after another on one  *)
(* view model.                                                             *)
(***************************************************************************)
ListMaxStored == 1
ListMaxLists == 2

\* None as the return value of get_by_id
NoHeader ==
  [id |-> NoneId, name |-> NoneStr, date_range_start |-> 0, date_range_end |-> 0]

\* BaseRepository.get_by_id for the ShoppingList model: session.get returns
\* the object of the session, with the attributes set on it
get_by_id(db, id) ==
  IF \E l \in VisibleLists(db) : l.id = id
  THEN CHOOSE l \in VisibleLists(db) : l.id = id
  ELSE NoHeader

\* an Optional argument: the empty set for None, {x} for the value x
None == {}
Some(x) == {x}
ValueOf(opt) == CHOOSE x \in opt : TRUE

\* the dicts a caller passes to update_shopping_list as data.  A key that
\* is absent from the dict is NoneStr (name) or 0 (a date) in the record.
ListUpdateData ==
  [name : {NoneStr}, date_range_start : {0} \cup Dates,
   date_range_end : {0} \cup Dates]

\* for key, value in data.items(): setattr(instance, key, value), over the
\* keys of ShoppingListUpdate.model_dump(exclude_none=True, exclude={"items"})
SetAttributes(row, data) ==
  [row EXCEPT
     !.name = IF data.name = NoneStr THEN @ ELSE data.name,
     !.date_range_start = IF data.date_range_start = 0 THEN @
                          ELSE data.date_range_start,
     !.date_range_end = IF data.date_range_end = 0 THEN @ ELSE data.date_range_end]

\* BaseRepository.update for the ShoppingList model: get_by_id, setattr,
\* commit, refresh
UpdateHeader(db, id, data, fail) ==
  LET row == get_by_id(db, id)
      changed == [db EXCEPT !.session.lists = Overrides(@, {SetAttributes(row, data)})]
  IN IF row = NoHeader
     THEN [db |-> db, raised |-> "none", id |-> NoneId]
     ELSE IF fail # "none"
     THEN [db |-> Rollback(db), raised |-> "DatabaseException", id |-> NoneId]
     ELSE [db |-> Commit(changed), raised |-> "none", id |-> id]

\* ShoppingListRepository.update_with_items called with a list of items:
\* setattr on the header, bulk DELETE of the item rows of the list, one
\* ShoppingListItem per item dict, commit.  fail = "flush" is an
\* SQLAlchemyError of the DELETE statement, fail = "commit" one of the commit.
update_with_items(db, id, shopping_list_data, items_data, fail) ==
  LET row == get_by_id(db, id)
      changed == [db EXCEPT
                    !.session.lists = Overrides(@, {SetAttributes(row, shopping_list_data)})]
      purged == [changed EXCEPT !.session.purged = @ \cup {id}]
      dup == DuplicateKeyword(items_data)
      upto == IF dup = {} THEN Len(items_data)
              ELSE (CHOOSE i \in dup : \A j \in dup : i <= j) - 1
      added == [purged EXCEPT !.session.items =
                  @ \o [i \in 1..upto |-> ItemRow(id, items_data[i])]]
  IN IF row = NoHeader
     THEN [db |-> db, raised |-> "none", id |-> NoneId]
     ELSE IF fail = "flush"
     THEN [db |-> Rollback(db), raised |-> "DatabaseException", id |-> NoneId]
     ELSE IF dup # {}
     THEN [db |-> added, raised |-> "TypeError", id |-> id]
     ELSE IF fail = "commit"
     THEN [db |-> Rollback(db), raised |-> "DatabaseException", id |-> NoneId]
     ELSE [db |-> Commit(added), raised |-> "none", id |-> id]

\* update_shopping_list with every comparison of the dates left out
RangeNeverRejected(shopping_list, data) == FALSE

\* the checks of update_shopping_list on the dates: lines 94-103
RangeRejected(shopping_list, data) ==
  IF data.date_range_start # 0 /\ data.date_range_end # 0
  THEN data.date_range_start > data.date_range_end
  ELSE IF data.date_range_start # 0
  THEN data.date_range_start > shopping_list.date_range_end
  ELSE IF data.date_range_end # 0
  THEN shopping_list.date_range_start > data.date_range_end
  ELSE FALSE

\* the result of update_shopping_list that ends in its except clause
UpdateError(db, calls, write) ==
  [db |-> db, result |-> NoList, raised |-> "none",
   handlers |-> << <<"update_shopping_list", "error">> >>,
   calls |-> calls, write |-> write]

\* the part of update_shopping_list after the repository write: lines 134-146
AfterUpdate(written, write_call, shopping_list_id) ==
  IF written.raised = "DatabaseException"
  THEN UpdateError(written.db, <<"get_by_id", write_call>>, "rejected")
  ELSE IF written.raised # "none"
  THEN [db |-> written.db, result |-> NoList, raised |-> written.raised,
        handlers |-> <<>>, calls |-> <<"get_by_id", write_call>>,
        write |-> written.raised]
  ELSE IF get_with_items(written.db, shopping_list_id) = "DatabaseException"
  THEN UpdateError(written.db, <<"get_by_id", write_call, "get_with_items">>,
                   "committed")
  ELSE [db |-> written.db,
        result |-> ShoppingListRead(written.db, shopping_list_id),
        raised |-> "none",
        handlers |-> << <<"update_shopping_list", "success">> >>,
        calls |-> <<"get_by_id", write_call, "get_with_items">>,
        write |-> "committed"]

\* ShoppingListViewModel.update_shopping_list.  items_data is None or
\* Some(list of item dicts).
update_shopping_list(db, shopping_list_id, data, items_data, fail) ==
  LET shopping_list == get_by_id(db, shopping_list_id)
  IN IF shopping_list = NoHeader
     THEN UpdateError(db, <<"get_by_id">>, "none")
     ELSE IF RangeRejected(shopping_list, data)
     THEN UpdateError(db, <<"get_by_id">>, "none")
     ELSE IF items_data # None
     THEN IF \E i \in 1..Len(ValueOf(items_data)) :
                \/ IsBlank(ValueOf(items_data)[i].ingredient_name)
                \/ IsBlank(ValueOf(items_data)[i].unit)
          THEN UpdateError(db, <<"get_by_id">>, "none")
          ELSE Only({AfterUpdate(written, "update_with_items", shopping_list_id) :
                 written \in {update_with_items(db, shopping_list_id, data,
                   [i \in 1..Len(ValueOf(items_data)) |->
                      ModelDumpItem(ValueOf(items_data)[i])], fail)}})
     ELSE Only({AfterUpdate(written, "update", shopping_list_id) :
            written \in {UpdateHeader(db, shopping_list_id, data, fail)}})

\* ShoppingListRepository.mark_item_as_purchased marking every item of the
\* list of the item
MarkWholeList(db, item_id, is_purchased, fail) ==
  IF ~\E it \in VisibleItems(db) : it.id = item_id
  THEN [db |-> db, raised |-> "none", result |-> FALSE]
  ELSE IF fail # "none"
  THEN [db |-> Rollback(db), raised |-> "DatabaseException", result |-> FALSE]
  ELSE LET item == CHOOSE it \in VisibleItems(db) : it.id = item_id
       IN [db |-> Commit([db EXCEPT !.shopping_list_items =
                           {IF it.shopping_list_id = item.shopping_list_id
                            THEN [it EXCEPT !.is_purchased = is_purchased]
                            ELSE it : it \in @}]),
           raised |-> "none", result |-> TRUE]

\* ShoppingListRepository.mark_item_as_purchased: session.get, assignment of
\* is_purchased, commit
MarkItem(db, item_id, is_purchased, fail) ==
  IF ~\E it \in VisibleItems(db) : it.id = item_id
  THEN [db |-> db, raised |-> "none", result |-> FALSE]
  ELSE IF fail # "none"
  THEN [db |-> Rollback(db), raised |-> "DatabaseException", result |-> FALSE]
  ELSE [db |-> Commit([db EXCEPT !.shopping_list_items =
                         {IF it.id = item_id
                          THEN [it EXCEPT !.is_purchased = is_purchased]
                          ELSE it : it \in @}]),
        raised |-> "none", result |-> TRUE]

\* ShoppingListViewModel.mark_item_as_purchased: result is the bool returned
mark_item_as_purchased(db, item_id, is_purchased, fail) ==
  LET marked == MarkItem(db, item_id, is_purchased, fail)
  IN IF marked.raised = "DatabaseException" \/ ~marked.result
     THEN [db |-> marked.db, result |-> FALSE, raised |-> "none",
           handlers |-> << <<"mark_item_as_purchased", "error">> >>,
           calls |-> <<"mark_item_as_purchased">>]
     ELSE [db |-> marked.db, result |-> TRUE, raised |-> "none",
           handlers |-> << <<"mark_item_as_purchased", "success">> >>,
           calls |-> <<"mark_item_as_purchased">>]

\* the item lists a caller passes: no item or one item
ListItemsData ==
  SeqsUpTo({[ingredient_name |-> "egg", total_quantity |-> 2, unit |-> "g",
             category |-> "OTHER", is_purchased |-> FALSE]}, 1)

\* stored lists 1..k, with items 1 and 2 in list 1 and item 3 in list 2
ListItem(id) ==
  [StoredItem(id) EXCEPT !.shopping_list_id = (id + 1) \div 2,
                         !.is_purchased = FALSE]

ListStores(n) ==
  UNION {{[lists |-> {StoredList(i) : i \in 1..k},
           items |-> {ListItem(i) : i \in with}] :
            with \in SUBSET {i \in 1..3 : (i + 1) \div 2 <= k}} : k \in 0..n}

InitLists ==
  /\ recipes = {}
  /\ ingredients = {}
  /\ meal_plans = <<[date |-> 1, meal_type |-> "BREAKFAST", recipes |-> {}]>>
  /\ \E store \in ListStores(ListMaxStored) :
        /\ shopping_lists = store.lists
        /\ shopping_list_items = store.items
  /\ session = EmptySession
  /\ recipe_session = EmptyRecipeSession
  /\ last = NoCall
  /\ runs = NoRuns
  /\ app = NoApp

\* one call of create_shopping_list on a store of fewer than ListMaxLists
\* lists
CreateList(name, start_date, end_date, items_data, fail) ==
  /\ Cardinality(VisibleLists(DB)) < ListMaxLists
  /\ CreateShoppingList(name, start_date, end_date, items_data, fail)

\* one call of update_shopping_list, to its return or raise
UpdateShoppingList(shopping_list_id, data, items_data, fail) ==
  /\ \E c \in {update_shopping_list(DB, shopping_list_id, data, items_data, fail)} :
        /\ shopping_lists' = c.db.shopping_lists
        /\ shopping_list_items' = c.db.shopping_list_items
        /\ session' = c.db.session
        /\ last' = [NoCall EXCEPT
                      !.op = "update_shopping_list", !.name = data.name,
                      !.start_date = data.date_range_start,
                      !.end_date = data.date_range_end,
                      !.fail = fail,
                      !.result = c.result, !.raised = c.raised,
                      !.handlers = c.handlers, !.calls = c.calls,
                      !.list_id = shopping_list_id, !.write = c.write,
                      !.items_data = IF items_data = None THEN <<>>
                                     ELSE ValueOf(items_data)]
  /\ UNCHANGED <<app, recipes, ingredients, meal_plans, recipe_session, runs>>

\* one call of mark_item_as_purchased
MarkItemAsPurchased(item_id, is_purchased, fail) ==
  /\ \E c \in {mark_item_as_purchased(DB, item_id, is_purchased, fail)} :
        /\ shopping_lists' = c.db.shopping_lists
        /\ shopping_list_items' = c.db.shopping_list_items
        /\ session' = c.db.session
        /\ last' = [NoCall EXCEPT
                      !.op = "mark_item_as_purchased",
                      !.fail = fail, !.id = item_id,
                      !.is_purchased = is_purchased,
                      !.success = c.result, !.raised = c.raised,
                      !.handlers = c.handlers, !.calls = c.calls]
  /\ UNCHANGED <<app, recipes, ingredients, meal_plans, recipe_session, runs>>

NextLists ==
  \/ \E name \in {"weekend"}, start_date \in Dates, end_date \in Dates,
        items_data \in ListItemsData, fail \in {"none"} :
       CreateList(name, start_date, end_date, items_data, fail)
  \/ \E shopping_list_id \in 1..ListMaxLists, data \in ListUpdateData,
        items_data \in {None} \cup {Some(s) : s \in ListItemsData},
        fail \in {"none", "commit"} :
       UpdateShoppingList(shopping_list_id, data, items_data, fail)
  \/ \E item_id \in 1..3, is_purchased \in BOOLEAN, fail \in {"none", "commit"} :
       MarkItemAsPurchased(item_id, is_purchased, fail)
  \/ \E name \in {"weekend"}, start_date \in Dates, end_date \in Dates :
       Generate(name, start_date, end_date, "none")

SpecLists == InitLists /\ [][NextLists]_vars

(***************************************************************************)
(* The association table meal_plan_recipes: add_recipe_to_meal_plan and    *)
(* remove_recipe_from_meal_plan of the meal-plan view model, next to       *)
(* create_meal_plan, update_meal_plan, delete_meal_plan and delete_recipe, *)
(* called one after another.  The rows of meal_plan_recipes of a meal plan *)
(* are the set recipes of its row in meal_plans.                           *)
(***************************************************************************)
AssocMaxRecipeId == 2

\* MealPlanRepository.add_recipe_to_meal_plan without the lookup of the
\* recipe and on a table without foreign keys
AppendRecipeUnchecked(plans, recs, meal_plan_id, recipe_id, loaded, fail) ==
  IF meal_plan_id \notin DOMAIN plans
  THEN [meal_plans |-> plans, result |-> FALSE, raised |-> "none"]
  ELSE IF fail # "none"
  THEN [meal_plans |-> plans, result |-> FALSE, raised |-> "DatabaseException"]
  ELSE [meal_plans |-> [plans EXCEPT ![meal_plan_id].recipes = @ \cup {recipe_id}],
        result |-> TRUE, raised |-> "none"]

\* MealPlanRepository.add_recipe_to_meal_plan.  loaded: session.get(Recipe,
\* recipe_id) returned an object; it does for a row of recipes, and may for
\* a row another session deleted while this session still holds the object.
\* The INSERT into meal_plan_recipes of the commit is refused by the foreign
\* key on recipes.id when the row is gone (PRAGMA foreign_keys=ON).
AppendRecipe(plans, recs, meal_plan_id, recipe_id, loaded, fail) ==
  IF meal_plan_id \notin DOMAIN plans
  THEN [meal_plans |-> plans, result |-> FALSE, raised |-> "none"]
  ELSE IF ~loaded
  THEN [meal_plans |-> plans, result |-> FALSE, raised |-> "none"]
  ELSE IF recipe_id \in plans[meal_plan_id].recipes
  THEN [meal_plans |-> plans, result |-> TRUE, raised |-> "none"]
  ELSE IF fail # "none" \/ recipe_id \notin recs
  THEN [meal_plans |-> plans, result |-> FALSE, raised |-> "DatabaseException"]
  ELSE [meal_plans |-> [plans EXCEPT ![meal_plan_id].recipes = @ \cup {recipe_id}],
        result |-> TRUE, raised |-> "none"]

\* MealPlanRepository.remove_recipe_from_meal_plan
RemoveRecipe(plans, meal_plan_id, recipe_id, loaded, fail) ==
  IF meal_plan_id \notin DOMAIN plans
  THEN [meal_plans |-> plans, result |-> FALSE, raised |-> "none"]
  ELSE IF ~loaded
  THEN [meal_plans |-> plans, result |-> FALSE, raised |-> "none"]
  ELSE IF recipe_id \notin plans[meal_plan_id].recipes
  THEN [meal_plans |-> plans, result |-> FALSE, raised |-> "none"]
  ELSE IF fail # "none"
  THEN [meal_plans |-> plans, result |-> FALSE, raised |-> "DatabaseException"]
  ELSE [meal_plans |-> [plans EXCEPT ![meal_plan_id].recipes = @ \ {recipe_id}],
        result |-> TRUE, raised |-> "none"]

\* the return of a repository call as the view model hands it on: lines
\* 238-246 and 257-265
AssocOutcome(op, written, calls) ==
  IF written.raised = "DatabaseException"
  THEN [meal_plans |-> written.meal_plans, result |-> FALSE, raised |-> "none",
        handlers |-> << <<op, "error">> >>, calls |-> calls]
  ELSE [meal_plans |-> written.meal_plans, result |-> written.result,
        raised |-> "none",
        handlers |-> << <<op, "success">> >>, calls |-> calls]

\* a call of the view model that ended in ValidationException
AssocRefused(op, plans, calls) ==
  [meal_plans |-> plans, result |-> FALSE, raised |-> "none",
   handlers |-> << <<op, "error">> >>, calls |-> calls]

\* MealPlanViewModel.add_recipe_to_meal_plan.  found: get_by_id of the
\* recipe repository returned an object.
add_recipe_to_meal_plan(plans, recs, meal_plan_id, recipe_id, found, loaded, fail) ==
  IF meal_plan_id \notin DOMAIN plans
  THEN AssocRefused("add_recipe_to_meal_plan", plans, <<"get_by_id">>)
  ELSE IF ~found
  THEN AssocRefused("add_recipe_to_meal_plan", plans, <<"get_by_id", "get_by_id">>)
  ELSE AssocOutcome("add_recipe_to_meal_plan",
                    AppendRecipe(plans, recs, meal_plan_id, recipe_id, loaded, fail),
                    <<"get_by_id", "get_by_id", "add_recipe_to_meal_plan">>)

\* MealPlanViewModel.remove_recipe_from_meal_plan
remove_recipe_from_meal_plan(plans, meal_plan_id, recipe_id, loaded, fail) ==
  IF meal_plan_id \notin DOMAIN plans
  THEN AssocRefused("remove_recipe_from_meal_plan", plans, <<"get_by_id">>)
  ELSE AssocOutcome("remove_recipe_from_meal_plan",
                    RemoveRecipe(plans, meal_plan_id, recipe_id, loaded, fail),
                    <<"get_by_id", "remove_recipe_from_meal_plan">>)

\* session.get returns an object for every row of recipes, none for an id
\* that never had a row, and either for a row that was deleted
CanLoad(recipe_id, loaded) ==
  /\ recipe_id \in recipes => loaded
  /\ recipe_id \notin RecipeIds => ~loaded

\* the step of a call on the association table with outcome c
AssocStep(op, meal_plan_id, recipe_id, fail, c) ==
  /\ meal_plans' = c.meal_plans
  /\ last' = [NoCall EXCEPT !.op = op, !.id = meal_plan_id,
                            !.recipe_id = recipe_id, !.fail = fail,
                            !.success = c.result, !.raised = c.raised,
                            !.handlers = c.handlers, !.calls = c.calls]
  /\ UNCHANGED <<app, recipes, ingredients, shopping_lists, shopping_list_items,
                 session, recipe_session, runs>>

InitAssoc ==
  /\ recipes = RecipeIds
  /\ ingredients = {}
  /\ meal_plans \in {<<>>, <<[date |-> 1, meal_type |-> "BREAKFAST",
                              recipes |-> RecipeIds]>>}
  /\ shopping_lists = {}
  /\ shopping_list_items = {}
  /\ session = EmptySession
  /\ recipe_session = EmptyRecipeSession
  /\ last = NoCall
  /\ runs = NoRuns
  /\ app = NoApp

\* one call of add_recipe_to_meal_plan
AddRecipeToMealPlan(meal_plan_id, recipe_id, found, loaded, fail) ==
  /\ CanLoad(recipe_id, found)
  /\ CanLoad(recipe_id, loaded)
  /\ \E c \in {add_recipe_to_meal_plan(meal_plans, recipes, meal_plan_id, recipe_id,
                                       found, loaded, fail)} :
        AssocStep("add_recipe_to_meal_plan", meal_plan_id, recipe_id, fail, c)

\* one call of remove_recipe_from_meal_plan
RemoveRecipeFromMealPlan(meal_plan_id, recipe_id, loaded, fail) ==
  /\ CanLoad(recipe_id, loaded)
  /\ \E c \in {remove_recipe_from_meal_plan(meal_plans, meal_plan_id, recipe_id,
                                            loaded, fail)} :
        AssocStep("remove_recipe_from_meal_plan", meal_plan_id, recipe_id, fail, c)

\* one call of create_meal_plan, check and write
CreateMealPlan(data, fail) ==
  /\ NextPlanId(meal_plans) <= PlanMaxId
  /\ \E raised \in {create_meal_plan_check(data)} :
       \E c \in {IF raised = "none" THEN create_meal_plan_write(meal_plans, data, fail)
                 ELSE CheckFailed("create_meal_plan", raised,
                                  IF raised = "ValidationException" THEN <<>>
                                  ELSE <<"get_by_date_and_meal_type">>)} :
        /\ meal_plans' = c.meal_plans
        /\ last' = PlanCall("create_meal_plan", NoneId, data, fail, c)
  /\ UNCHANGED <<app, recipes, ingredients, shopping_lists, shopping_list_items,
                 session, recipe_session, runs>>

\* one call of update_meal_plan, check and write
UpdateMealPlan(meal_plan_id, data, fail) ==
  /\ \E raised \in {update_meal_plan_check(meal_plans, meal_plan_id, data)} :
       \E c \in {IF raised = "none"
                 THEN update_meal_plan_write(meal_plans, meal_plan_id, data, fail)
                 ELSE CheckFailed("update_meal_plan", raised,
                                  IF raised = "ValidationException" THEN <<"get_by_id">>
                                  ELSE <<"get_by_id", "get_by_date_and_meal_type">>)} :
        /\ meal_plans' = c.meal_plans
        /\ last' = PlanCall("update_meal_plan", meal_plan_id,
                            [data EXCEPT !.keys = {}] @@ [name |-> NoneStr], fail, c)
  /\ UNCHANGED <<app, recipes, ingredients, shopping_lists, shopping_list_items,
                 session, recipe_session, runs>>

NextAssoc ==
  \/ \E meal_plan_id \in 1..PlanMaxId, recipe_id \in 1..AssocMaxRecipeId,
        found \in BOOLEAN, loaded \in BOOLEAN, fail \in {"none", "commit"} :
       AddRecipeToMealPlan(meal_plan_id, recipe_id, found, loaded, fail)
  \/ \E meal_plan_id \in 1..PlanMaxId, recipe_id \in 1..AssocMaxRecipeId,
        loaded \in BOOLEAN, fail \in {"none", "commit"} :
       RemoveRecipeFromMealPlan(meal_plan_id, recipe_id, loaded, fail)
  \/ \E data \in PlanCreateData, fail \in {"none", "commit"} : CreateMealPlan(data, fail)
  \/ \E meal_plan_id \in 1..PlanMaxId, data \in PlanUpdateData,
        fail \in {"none", "commit"} :
       UpdateMealPlan(meal_plan_id, data, fail)
  \/ \E meal_plan_id \in 1..PlanMaxId, fail \in {"none", "commit"} :
       DeleteMealPlan(meal_plan_id, fail)
  \/ \E recipe_id \in 1..AssocMaxRecipeId, fail \in {"none", "commit"} :
       DeleteRecipe(recipe_id, fail)

SpecAssoc == InitAssoc /\ [][NextAssoc]_vars

(***************************************************************************)
(* Database initialization: create_tables and init_db.                     *)
(***************************************************************************)
MaxRetries == 3

\* what Base.metadata.create_all does in one call: it returns ("none"), or
\* raises OperationalError, another SQLAlchemyError, or an exception that
\* is no SQLAlchemyError
Faults == {"none", "OperationalError", "IntegrityError", "RuntimeError"}
SQLAlchemyErrors == {"OperationalError", "IntegrityError"}

\* create_tables: "returned", or the exception that leaves it.  The except
\* clause names SQLAlchemyError, the base class of OperationalError.
create_tables(fault) ==
  IF fault = "none" THEN "returned"
  ELSE IF fault \in SQLAlchemyErrors THEN "DatabaseException"
  ELSE fault

\* the while loop of init_db from the state (retries, attempts) on; faults[i]
\* is what create_all does at the i-th call of create_tables
RECURSIVE InitDbLoop(_, _, _, _)
InitDbLoop(max_retries, faults, retries, attempts) ==
  IF retries < max_retries /\ attempts < Len(faults)
  THEN LET outcome == create_tables(faults[attempts + 1])
       IN IF outcome = "returned"
          THEN [result |-> "returned", attempts |-> attempts + 1]
          ELSE IF outcome = "OperationalError"
          THEN InitDbLoop(max_retries, faults, retries + 1, attempts + 1)
          ELSE [result |-> outcome, attempts |-> attempts + 1]
  ELSE [result |-> "DatabaseException", attempts |-> attempts]

\* init_db(max_retries): the result and the number of calls of create_tables
init_db(max_retries, faults) ==
  [max_retries |-> max_retries, faults |-> faults]
    @@ InitDbLoop(max_retries, faults, 0, 0)

\* the behaviours of create_all over the calls of one init_db
FaultSeqs(n) == [1..n -> Faults]

InitInit ==
  /\ recipes = {}
  /\ ingredients = {}
  /\ meal_plans = <<>>
  /\ shopping_lists = {}
  /\ shopping_list_items = {}
  /\ session = EmptySession
  /\ recipe_session = EmptyRecipeSession
  /\ last = NoCall
  /\ runs = NoRuns
  /\ app = NoApp

\* one call of init_db
InitDb(max_retries, faults) ==
  /\ app' = [app EXCEPT !.init_db = init_db(max_retries, faults)]
  /\ UNCHANGED <<recipes, ingredients, meal_plans, shopping_lists,
                 shopping_list_items, session, recipe_session, last, runs>>

NextInit ==
  \E max_retries \in 0..MaxRetries, faults \in FaultSeqs(MaxRetries) :
     InitDb(max_retries, faults)

SpecInit == InitInit /\ [][NextInit]_vars

(***************************************************************************)
(* MealPlannerApp at startup.  startup() shows the splash screen and       *)
(* starts the thread of _async_initialize; the thread calls init_db and    *)
(* hands a task to the event loop with add_background_task; the event loop *)
(* runs the tasks one after another, each to its end.  app is the record   *)
(*   pc       where the thread is: "idle" before startup, "thread" before  *)
(*            init_db, "except" inside an except clause, "done" after it   *)
(*   error    the exception bound to e in _async_initialize, "unbound"     *)
(*            outside its except clauses                                   *)
(*   tasks    the tasks handed to the event loop and not yet run           *)
(*   events   what has happened, in order: init_db calls with their        *)
(*            result, MainView(self), dialogs, exceptions of the tasks     *)
(*   init_db  the last call of init_db                                     *)
(***************************************************************************)
DefaultMaxRetries == 3
RecoveryMaxRetries == 5

Event(kind, what) == [kind |-> kind, what |-> what]

\* create_all doing the same at each of the n calls of one init_db
Persistent(fault, n) == [i \in 1..n |-> fault]

\* _handle_initialization_error(error): the events of the call.  backup:
\* backup_database returned a path; recreate, restore: the answers to the
\* two question dialogs; restored: what restore_database returned;
\* recreated, reinitialized: the init_db calls of lines 136 and 165.
HandleInitializationError(error, backup, recreate, recreated, restore, restored, reinitialized) ==
  LET fallthrough == << Event("info_dialog", "initialization error") >>
      failed == << Event("info_dialog", "restore failed"), Event("exit", "1") >>
  IN << Event("backup_database", IF backup THEN "path" ELSE "None") >> \o
     (IF error = "DatabaseException" /\ recreate
      THEN << Event("init_db", recreated.result) >> \o
           (IF recreated.result = "returned"
            THEN << Event("MainView", "created"), Event("info_dialog", "recovered") >>
            ELSE IF backup /\ restore
            THEN IF restored
                 THEN << Event("info_dialog", "restored"),
                         Event("init_db", reinitialized.result) >> \o
                      (IF reinitialized.result = "returned"
                       THEN << Event("MainView", "created") >>
                       ELSE failed)
                 ELSE failed
            ELSE fallthrough)
      ELSE fallthrough)

\* toga.App.add_background_task(handler)
add_background_task(a, handler) == [a EXCEPT !.tasks = Append(@, handler)]

AppInit ==
  /\ recipes = {}
  /\ ingredients = {}
  /\ meal_plans = <<>>
  /\ shopping_lists = {}
  /\ shopping_list_items = {}
  /\ session = EmptySession
  /\ recipe_session = EmptyRecipeSession
  /\ last = NoCall
  /\ runs = NoRuns
  /\ app = NoApp

\* startup(): the splash screen, then the thread of _async_initialize
Startup ==
  /\ app.pc = "idle"
  /\ app' = [app EXCEPT !.pc = "thread"]
  /\ UNCHANGED <<recipes, ingredients, meal_plans, shopping_lists,
                 shopping_list_items, session, recipe_session, last, runs>>

\* _async_initialize up to the call of add_background_task
AsyncInitialize(faults) ==
  /\ app.pc = "thread"
  /\ \E call \in {init_db(DefaultMaxRetries, faults)} :
        app' = IF call.result = "returned"
               THEN [add_background_task(app, "_create_main_view") EXCEPT
                       !.pc = "done", !.init_db = call,
                       !.events = Append(@, Event("init_db", call.result))]
               ELSE IF call.result = "DatabaseException"
               THEN [add_background_task(app, "_handle_initialization_error") EXCEPT
                       !.pc = "except", !.error = call.result, !.init_db = call,
                       !.events = Append(@, Event("init_db", call.result))]
               ELSE [add_background_task(app, "info_dialog") EXCEPT
                       !.pc = "except", !.error = call.result, !.init_db = call,
                       !.events = Append(@, Event("init_db", call.result))]
  /\ UNCHANGED <<recipes, ingredients, meal_plans, shopping_lists,
                 shopping_list_items, session, recipe_session, last, runs>>

\* the thread leaves the except clause: the name e is unbound
LeaveExcept ==
  /\ app.pc = "except"
  /\ app' = [app EXCEPT !.pc = "done", !.error = "unbound"]
  /\ UNCHANGED <<recipes, ingredients, meal_plans, shopping_lists,
                 shopping_list_items, session, recipe_session, last, runs>>

\* the event loop runs the task _create_main_view
CreateMainView ==
  /\ app.tasks # <<>>
  /\ Head(app.tasks) = "_create_main_view"
  /\ app' = [app EXCEPT !.tasks = Tail(@),
                        !.events = Append(@, Event("MainView", "created"))]
  /\ UNCHANGED <<recipes, ingredients, meal_plans, shopping_lists,
                 shopping_list_items, session, recipe_session, last, runs>>

\* the event loop runs lambda: self._handle_initialization_error(e)
RunHandleInitializationError(backup, recreate, fault, restore, restored, again) ==
  /\ app.tasks # <<>>
  /\ Head(app.tasks) = "_handle_initialization_error"
  /\ \E recreated \in {init_db(RecoveryMaxRetries, Persistent(fault, RecoveryMaxRetries))},
        reinitialized \in {init_db(DefaultMaxRetries, Persistent(again, DefaultMaxRetries))} :
        app' = IF app.error = "unbound"
               THEN [app EXCEPT !.tasks = Tail(@),
                                !.events = Append(@, Event("raised", "NameError"))]
               ELSE LET events == HandleInitializationError(app.error, backup, recreate,
                                    recreated, restore, restored, reinitialized)
                    IN [app EXCEPT
                          !.tasks = IF events[Len(events)].kind = "exit" THEN <<>>
                                    ELSE Tail(@),
                          !.events = @ \o events,
                          !.init_db =
                             IF \E i \in 1..Len(events) :
                                   events[i] = Event("info_dialog", "restored")
                             THEN reinitialized
                             ELSE IF app.error = "DatabaseException" /\ recreate
                             THEN recreated ELSE @]
  /\ UNCHANGED <<recipes, ingredients, meal_plans, shopping_lists,
                 shopping_list_items, session, recipe_session, last, runs>>

\* the event loop runs lambda: self.main_window.info_dialog(..., str(e), ...)
ShowUnexpectedError ==
  /\ app.tasks # <<>>
  /\ Head(app.tasks) = "info_dialog"
  /\ app' = [app EXCEPT
               !.tasks = Tail(@),
               !.events = Append(@, IF app.error = "unbound"
                                    THEN Event("raised", "NameError")
                                    ELSE Event("info_dialog", "unexpected error"))]
  /\ UNCHANGED <<recipes, ingredients, meal_plans, shopping_lists,
                 shopping_list_items, session, recipe_session, last, runs>>

NextApp ==
  \/ Startup
  \/ \E faults \in FaultSeqs(MaxRetries) : AsyncInitialize(faults)
  \/ LeaveExcept
  \/ CreateMainView
  \/ \E backup \in BOOLEAN, recreate \in BOOLEAN, fault \in Faults,
        restore \in BOOLEAN, restored \in BOOLEAN, again \in Faults :
       RunHandleInitializationError(backup, recreate, fault, restore, restored, again)
  \/ ShowUnexpectedError

SpecApp == AppInit /\ [][NextApp]_vars
(***************************************************************************)
(* Definitions used by the properties.                                     *)
(***************************************************************************)
WriteCalls == {"create", "create_with_items"}
ReadCalls == {"get_by_date_range", "get_with_recipes", "query_recipe"}

PlansInRange(start_date, end_date) ==
  {p \in PlanIds : start_date <= meal_plans[p].date /\ meal_plans[p].date <= end_date}

\* the ingredient lines of the plans in S, one per (plan, recipe, line)
LinesMet(S) ==
  UNION {UNION {{<<p, r, i>> : i \in 1..Len(IngredientsOf(r))} :
                  r \in meal_plans[p].recipes} : p \in S}

LineAt(t) == IngredientsOf(t[2])[t[3]]

KeysMet(S) == {KeyOf(LineAt(t)) : t \in LinesMet(S)}

RECURSIVE SumQuantities(_)
SumQuantities(T) ==
  IF T = {} THEN 0
  ELSE LET t == CHOOSE x \in T : TRUE
       IN LineAt(t).quantity + SumQuantities(T \ {t})

ExpectedTotal(S, key) ==
  SumQuantities({t \in LinesMet(S) : KeyOf(LineAt(t)) = key})

ItemKey(item) == <<item.ingredient_name, item.unit, item.category>>

\* items compared by key and total quantity
ItemSet(items) == {<<ItemKey(items[i]), items[i].total_quantity>> : i \in DOMAIN items}
RowSet(rows) == {<<ItemKey(it), it.total_quantity>> : it \in rows}

LastPlans == PlansInRange(last.start_date, last.end_date)

\* the store raised an SQLAlchemyError on the write of the call
StoreRejected(call) == call.write = "rejected"

\* a generate call with a valid range, meal plans in it, a name, and a
\* store that accepts the write
Generated(call) ==
  /\ call.op = "generate"
  /\ call.start_date <= call.end_date
  /\ PlansInRange(call.start_date, call.end_date) # {}
  /\ ~IsBlank(call.name)
  /\ ~StoreRejected(call)

(***************************************************************************)
(* C1 (as claimed).  A generate call over the meal plans of its range      *)
(* returns a list in which the item of every key met carries the sum of    *)
(* the quantities of all lines with that key, each recipe counted once per *)
(* meal plan referencing it.                                               *)
(***************************************************************************)
C1_SumPerKey ==
  Generated(last) =>
    /\ last.result # NoList
    /\ \A key \in KeysMet(LastPlans) :
          \E it \in last.result.items :
             /\ ItemKey(it) = key
             /\ it.total_quantity = ExpectedTotal(LastPlans, key)

C3_UnitsNeverMerge ==
  Generated(last) =>
    \A t1, t2 \in LinesMet(LastPlans) :
       (/\ LineAt(t1).name = LineAt(t2).name
        /\ LineAt(t1).category = LineAt(t2).category
        /\ LineAt(t1).unit # LineAt(t2).unit)
       => \E i1, i2 \in last.result.items :
             /\ i1 # i2
             /\ ItemKey(i1) = KeyOf(LineAt(t1))
             /\ ItemKey(i2) = KeyOf(LineAt(t2))
             /\ i1.total_quantity = ExpectedTotal(LastPlans, ItemKey(i1))
             /\ i2.total_quantity = ExpectedTotal(LastPlans, ItemKey(i2))

(***************************************************************************)
(* C4 (as claimed).  A generate run produces a list that holds exactly one *)
(* item per distinct key met during the run: every key met has an item, no *)
(* two items share a key, and no item has a key that was not met.          *)
(***************************************************************************)
C4_OneItemPerKey ==
  Generated(last) =>
    /\ last.list_id # NoneId
    /\ LET produced == ItemsOfList(DB, last.list_id)
       IN /\ {ItemKey(it) : it \in produced} = KeysMet(LastPlans)
          /\ \A i1, i2 \in produced : ItemKey(i1) = ItemKey(i2) => i1 = i2

(***************************************************************************)
(* C5.  A generate call with start_date > end_date ends in the error       *)
(* handler of generate and returns None without a single repository call   *)
(* (no meal-plan lookup, no recipe lookup, no write), and leaves the       *)
(* tables and the session as they were.                                    *)
(***************************************************************************)
C5_InvalidRangeBeforeLookup ==
  [][(last'.op = "generate" /\ last'.start_date > last'.end_date) =>
       /\ last'.calls = <<>>
       /\ last'.result = NoList
       /\ last'.raised = "none"
       /\ last'.handlers = << <<"generate_shopping_list_from_meal_plans", "error">> >>
       /\ UNCHANGED <<shopping_lists, shopping_list_items, session>>]_vars

C5_Witness ==
  /\ last.op = "generate"
  /\ last.start_date > last.end_date
  /\ PlanIds # {}
  /\ last.handlers # <<>>

(***************************************************************************)
(* C6.  A generate call with a valid range that holds no meal plan ends in *)
(* the error handler of generate and returns None; neither create nor      *)
(* create_with_items is called and the stored shopping lists and items are *)
(* unchanged.                                                              *)
(***************************************************************************)
C6_NoMealPlansNoCreate ==
  [][(/\ last'.op = "generate"
      /\ last'.start_date <= last'.end_date
      /\ PlansInRange(last'.start_date, last'.end_date) = {}) =>
       /\ last'.result = NoList
       /\ last'.raised = "none"
       /\ last'.handlers = << <<"generate_shopping_list_from_meal_plans", "error">> >>
       /\ \A i \in 1..Len(last'.calls) : last'.calls[i] \notin WriteCalls
       /\ UNCHANGED <<shopping_lists, shopping_list_items, session>>]_vars

C6_Witness ==
  /\ last.op = "generate"
  /\ last.start_date <= last.end_date
  /\ LastPlans = {}
  /\ PlanIds # {}
  /\ last.calls = <<"get_by_date_range">>

(***************************************************************************)
(* C7 (as claimed).  When create_with_items was called and the call did    *)
(* not return a list, the call leaves nothing behind: no list row that was *)
(* not visible before is visible to a query on the session, no item row is *)
(* stored and no item object is left pending.                              *)
(***************************************************************************)
C7_AtomicWrite ==
  [][(/\ last'.op = "create_shopping_list"
      /\ last'.result = NoList
      /\ \E i \in 1..Len(last'.calls) : last'.calls[i] = "create_with_items") =>
       /\ VisibleLists(DB)' \subseteq VisibleLists(DB)
       /\ shopping_list_items' = shopping_list_items
       /\ session'.items = <<>>]_vars

(***************************************************************************)
(* C8 (as claimed).  Two consecutive generate calls with the same name,    *)
(* start and end over unchanged recipes and meal plans store two lists     *)
(* with different ids whose item sets, by key and total quantity, are      *)
(* equal.                                                                  *)
(***************************************************************************)
C8_TwiceTwoLists ==
  [][(/\ Generated(last)
      /\ Generated(last)'
      /\ last'.name = last.name
      /\ last'.start_date = last.start_date
      /\ last'.end_date = last.end_date) =>
       /\ last.result # NoList
       /\ last'.result # NoList
       /\ last'.result.id # last.result.id
       /\ {last.result.id, last'.result.id} \subseteq {l.id : l \in shopping_lists'}
       /\ RowSet(last'.result.items) = RowSet(last.result.items)]_vars

RECURSIVE CountReferences(_)
CountReferences(S) ==
  IF S = {} THEN 0
  ELSE LET p == CHOOSE x \in S : TRUE
       IN Cardinality(meal_plans[p].recipes) + CountReferences(S \ {p})

Unresolved(run) ==
  /\ run.pc = "done"
  /\ run.plans # <<>>
  /\ Head(run.plans) \notin run.at_loop

C11_VanishedAborts ==
  \A i \in DOMAIN runs :
     Unresolved(runs[i]) =>
       /\ runs[i].raised = "none"
       /\ runs[i].result = NoList
       /\ runs[i].handlers = << <<"generate_shopping_list_from_meal_plans", "error">> >>
       /\ \A k \in 1..Len(runs[i].calls) : runs[i].calls[k] \notin WriteCalls

RunGenerated(run) ==
  /\ run.pc = "done"
  /\ run.start_date <= run.end_date
  /\ run.plans # <<>>
  /\ ~IsBlank(run.name)
  /\ ~StoreRejected(run)
  /\ run.at_query = meal_plans

C13_InterleavedRunsIndependent ==
  \A i, j \in DOMAIN runs :
     (i \in runs[j].concurrent /\ RunGenerated(runs[i]) /\ RunGenerated(runs[j])) =>
       /\ runs[i].result # NoList
       /\ runs[j].result # NoList
       /\ runs[i].result.id # runs[j].result.id
       /\ \A k \in {i, j} :
             RowSet(runs[k].result.items) =
               ItemSet(BuildItems(Aggregate(runs[k].plans, CodeRecipeOrder)))

(***************************************************************************)
(* C14.  A call of generate, whatever its outcome, leaves the recipes, the *)
(* ingredient lines and the meal plans with their recipe references as     *)
(* they were.                                                              *)
(***************************************************************************)
C14_SourcesUnchanged ==
  [][last'.op = "generate" => UNCHANGED <<recipes, ingredients, meal_plans>>]_vars

C14_Witness ==
  /\ last.op = "generate"
  /\ LastPlans # {}
  /\ ingredients # {}
  /\ \E i \in 1..Len(last.calls) : last.calls[i] = "get_with_recipes"

(***************************************************************************)
(* C15.  A call of generate leaves every shopping list that a reader could *)
(* see before it, with every one of its item rows (is_purchased included), *)
(* as it was, and adds at most one list.                                   *)
(***************************************************************************)
C15_ExistingListsUntouched ==
  [][last'.op = "generate" =>
       /\ \A l \in VisibleLists(DB) :
             /\ l \in VisibleLists(DB)'
             /\ ItemsOfList(DB, l.id)' = ItemsOfList(DB, l.id)
       /\ shopping_lists \subseteq shopping_lists'
       /\ Cardinality(VisibleLists(DB)') <= Cardinality(VisibleLists(DB)) + 1]_vars

C15_Witness ==
  /\ last.op = "generate"
  /\ last.start_date <= last.end_date
  /\ LastPlans # {}
  /\ \E it \in shopping_list_items : it.is_purchased

(***************************************************************************)
(* C17.  The range query of a call of generate with start_date <=          *)
(* end_date returns exactly the meal plans p with start_date <= date of p  *)
(* <= end_date: plans dated start_date or end_date are among them, plans   *)
(* outside the range are not.                                              *)
(***************************************************************************)
C17_RangeInclusive ==
  (last.op = "generate" /\ last.start_date <= last.end_date) =>
    {last.plans[i] : i \in 1..Len(last.plans)} = LastPlans

C17_Witness ==
  /\ last.op = "generate"
  /\ last.start_date = last.end_date
  /\ \E p \in PlanIds : meal_plans[p].date = last.start_date
  /\ \E p \in PlanIds : meal_plans[p].date # last.start_date
  /\ Len(last.plans) = 1

(***************************************************************************)
(* C18 (as claimed).  A generate call with a valid range, meal plans in    *)
(* it and a name returns the stored list: its id is one of the stored      *)
(* ids, its name and date range are the arguments of the call, its items   *)
(* are the aggregation of the range by key and total quantity, and every   *)
(* item refers to the id of the list.                                      *)
(***************************************************************************)
C18_ReturnsPersistedList ==
  Generated(last) =>
    /\ last.result.id # NoneId
    /\ last.result.id \in {l.id : l \in shopping_lists}
    /\ last.result.name = last.name
    /\ last.result.date_range_start = last.start_date
    /\ last.result.date_range_end = last.end_date
    /\ RowSet(last.result.items) =
         ItemSet(BuildItems(Aggregate(get_by_date_range(last.start_date, last.end_date),
                                      CodeRecipeOrder)))
    /\ \A it \in last.result.items : it.shopping_list_id = last.result.id

(***************************************************************************)
(* C19.  After delete_shopping_list(id) returned True, no list and no item *)
(* row with shopping_list_id = id is left, and the item rows of every      *)
(* other list are the ones stored before the call.                         *)
(***************************************************************************)
C19_DeleteCascades ==
  [][(last'.op = "delete_shopping_list" /\ last'.success) =>
       /\ ~\E l \in VisibleLists(DB)' : l.id = last'.list_id
       /\ ~\E it \in shopping_list_items' : it.shopping_list_id = last'.list_id
       /\ \A id \in 1..StoreMaxLists :
             id # last'.list_id => ItemsOfList(DB, id)' = ItemsOfList(DB, id)]_vars

C19_Witness ==
  /\ last.op = "delete_shopping_list"
  /\ last.success
  /\ last.removed # {}
  /\ shopping_list_items # {}

(***************************************************************************)
(* C16.  Whatever calls of create_meal_plan, update_meal_plan and          *)
(* delete_meal_plan took place, interleaved between check and write, no    *)
(* two meal plans have the same (date, meal_type); and a create_meal_plan  *)
(* that ends while the slot of its data is occupied returns None, has      *)
(* called the error handler once, and leaves the meal plans as they were.  *)
(***************************************************************************)
Occupied(date_val, meal_type) ==
  \E p \in PlanIds : meal_plans[p].date = date_val /\ meal_plans[p].meal_type = meal_type

C16_OnePlanPerSlot ==
  [][/\ UniqueSlots(meal_plans')
     /\ (/\ last'.op = "create_meal_plan"
         /\ last' # last
         /\ Occupied(last'.date, last'.meal_type)) =>
          /\ last'.value = "None"
          /\ last'.raised = "none"
          /\ last'.handlers = << <<"create_meal_plan", "error">> >>
          /\ meal_plans' = meal_plans]_vars

C16_Witness ==
  /\ last.op = "create_meal_plan"
  /\ last.calls = <<"get_by_date_and_meal_type", "create">>
  /\ last.fail = "none"
  /\ Occupied(last.date, last.meal_type)

(***************************************************************************)
(* C20.  Whatever calls of create_recipe, update_recipe, add_ingredient,   *)
(* remove_ingredient and delete_recipe took place, every row of the        *)
(* ingredients table refers to a row of the recipes table, and after       *)
(* delete_recipe(id) returned True no ingredient row refers to id.         *)
(***************************************************************************)
C20_NoOrphanLines ==
  /\ \A row \in ingredients : row.recipe_id \in recipes
  /\ (last.op = "delete_recipe" /\ last.success) =>
        ~\E row \in ingredients : row.recipe_id = last.id

C20_Witness ==
  /\ last.op = "delete_recipe"
  /\ last.success
  /\ last.removed # {}
  /\ ingredients # {}


(***************************************************************************)
(* C22: create_shopping_list called with date_range_start after            *)
(* date_range_end returns None, calls the create_shopping_list error       *)
(* handler exactly once and nothing else, calls no repository method, and  *)
(* leaves the stored lists, the stored items and the session as they were. *)
(***************************************************************************)
C22_InvalidRangeRejected ==
  [][(last'.op = "create_shopping_list" /\ last'.start_date > last'.end_date)
       => /\ last'.result = NoList
          /\ last'.raised = "none"
          /\ last'.handlers = << <<"create_shopping_list", "error">> >>
          /\ last'.calls = <<>>
          /\ last'.write = "none"
          /\ UNCHANGED <<shopping_lists, shopping_list_items, session>>]_vars

\* a rejected call that named the list and passed one item
C22_Witness ==
  /\ last.op = "create_shopping_list"
  /\ last.start_date > last.end_date
  /\ ~IsBlank(last.name)
  /\ last.items_data # <<>>
  /\ last.fail = "none"
  /\ last.result = NoList
  /\ shopping_lists # {}

(***************************************************************************)
(* C23: every call of create_shopping_list or of                           *)
(* generate_shopping_list_from_meal_plans invokes exactly one handler: a   *)
(* success handler when it returns a list, an error handler when it        *)
(* returns None; never both, never two, never none.                        *)
(***************************************************************************)
C23_ExactlyOneHandler ==
  last.op \in {"create_shopping_list", "generate"}
    => /\ Len(last.handlers) = 1
       /\ last.raised = "none"
       /\ last.handlers[1][2] = (IF last.result = NoList THEN "error" ELSE "success")

(***************************************************************************)
(* C30: after a create_with_items that ended in a failure the session of   *)
(* the repository holds no pending header and no pending item, so that no  *)
(* later commit on that session can store a header without its items.      *)
(***************************************************************************)
C30_NoPendingAfterFailure ==
  (/\ last.op = "create_shopping_list"
   /\ last.calls # <<>>
   /\ last.calls[1] = "create_with_items"
   /\ last.write # "committed")
    => session = EmptySession

(***************************************************************************)
(* C25: the range lookup returns the meal plans ordered by date and,       *)
(* within one date, by meal type in the order of the enumeration:          *)
(* BREAKFAST, then LUNCH, then DINNER.                                     *)
(***************************************************************************)
C25_RangeInEnumOrder ==
  last.op = "generate" =>
    \A i, j \in 1..Len(last.plans) :
      i < j =>
        \/ meal_plans[last.plans[i]].date < meal_plans[last.plans[j]].date
        \/ /\ meal_plans[last.plans[i]].date = meal_plans[last.plans[j]].date
           /\ MealTypeIndex(meal_plans[last.plans[i]].meal_type)
                < MealTypeIndex(meal_plans[last.plans[j]].meal_type)

(***************************************************************************)
(* C28: a generate call whose range holds meal plans, none of them with an *)
(* ingredient line (no recipes, or recipes without lines), stores exactly  *)
(* one list with the name and range of the call and no items, through the  *)
(* repository's create and not create_with_items, and returns it.          *)
(***************************************************************************)
C28_NoLinesEmptyList ==
  (Generated(last) /\ last.fail = "none" /\ LinesMet(LastPlans) = {})
    => /\ last.result # NoList
       /\ last.result.name = last.name
       /\ last.result.date_range_start = last.start_date
       /\ last.result.date_range_end = last.end_date
       /\ last.result.items = {}
       /\ \E l \in shopping_lists : l.id = last.result.id
       /\ ItemsOfList(DB, last.result.id) = {}
       /\ \E i \in 1..Len(last.calls) : last.calls[i] = "create"
       /\ \A i \in 1..Len(last.calls) : last.calls[i] # "create_with_items"

(***************************************************************************)
(* C27: mark_item_as_purchased(item_id, flag) on an existing item sets the *)
(* is_purchased of that item to flag and changes nothing else: no other    *)
(* field of the item, no other item, no list; it returns True after one    *)
(* success-handler call.  On an item_id that does not exist it returns     *)
(* False after one error-handler call and changes nothing.  A second call  *)
(* with the same item and flag changes nothing more.  The items and lists  *)
(* are those a query on the repository's session returns; when the session *)
(* holds nothing pending they are the stored rows.                         *)
(***************************************************************************)
MarkedItems(items, item_id, flag) ==
  {IF it.id = item_id THEN [it EXCEPT !.is_purchased = flag] ELSE it : it \in items}

UpdateOfCall(call) ==
  [name |-> call.name, date_range_start |-> call.start_date,
   date_range_end |-> call.end_date]

C29_RangeOrdered ==
  /\ [](\A l \in shopping_lists \cup VisibleLists(DB) :
          l.date_range_start <= l.date_range_end)
  /\ [][(/\ last'.op = "update_shopping_list"
          /\ get_by_id(DB, last'.list_id) # NoHeader
          /\ LET after == SetAttributes(get_by_id(DB, last'.list_id),
                                        UpdateOfCall(last'))
             IN after.date_range_start > after.date_range_end)
         => /\ last'.result = NoList
            /\ last'.handlers = << <<"update_shopping_list", "error">> >>
            /\ UNCHANGED <<shopping_lists, shopping_list_items, session>>]_vars

\* an update of the start date alone was refused against the stored end
C29_Witness ==
  /\ last.op = "update_shopping_list"
  /\ last.start_date # 0 /\ last.end_date = 0
  /\ \E l \in shopping_lists :
        l.id = last.list_id /\ last.start_date > l.date_range_end
  /\ last.result = NoList
  /\ last.write = "none"

\* an update of the end date alone was refused against the stored start
C29_WitnessEndOnly ==
  /\ last.op = "update_shopping_list"
  /\ last.start_date = 0 /\ last.end_date # 0
  /\ \E l \in shopping_lists :
        l.id = last.list_id /\ l.date_range_start > last.end_date
  /\ last.result = NoList

(***************************************************************************)
(* C21: after any sequence of add_recipe_to_meal_plan,                     *)
(* remove_recipe_from_meal_plan, create_meal_plan, update_meal_plan,       *)
(* delete_recipe and delete_meal_plan every row of meal_plan_recipes       *)
(* refers to a row of meal_plans and to a row of recipes; a call of        *)
(* add_recipe_to_meal_plan with the id of no recipe returns False and      *)
(* leaves the associations as they were.                                   *)
(***************************************************************************)
C21_AssociationsResolve ==
  /\ [](\A p \in PlanIds : meal_plans[p].recipes \subseteq recipes)
  /\ [][(last'.op = "add_recipe_to_meal_plan" /\ last'.recipe_id \notin recipes)
         => /\ ~last'.success
            /\ meal_plans' = meal_plans]_vars

\* the add of a recipe that was deleted got as far as the INSERT and was
\* refused there, while a meal plan exists
C21_Witness ==
  /\ last.op = "add_recipe_to_meal_plan"
  /\ last.recipe_id \notin recipes
  /\ last.id \in PlanIds
  /\ last.fail = "none"
  /\ Len(last.calls) = 3
  /\ last.handlers = << <<"add_recipe_to_meal_plan", "error">> >>

(***************************************************************************)
(* C26: init_db retries: while create_all fails with OperationalError the  *)
(* table creation is attempted again, up to max_retries attempts in all;   *)
(* init_db returns at the first attempt that succeeds and raises           *)
(* DatabaseException only after max_retries attempts have failed.          *)
(***************************************************************************)
FirstOf(S) == CHOOSE x \in S : \A y \in S : x <= y

\* the attempts of a call on which create_all raised nothing
Succeeding(call) ==
  {i \in 1..call.max_retries : i <= Len(call.faults) /\ call.faults[i] = "none"}

C26_RetriesUpToMax ==
  (/\ app.init_db.result # "none"
   /\ \A i \in DOMAIN app.init_db.faults :
         app.init_db.faults[i] \in {"none", "OperationalError"})
    => IF Succeeding(app.init_db) # {}
       THEN /\ app.init_db.result = "returned"
            /\ app.init_db.attempts = FirstOf(Succeeding(app.init_db))
       ELSE /\ app.init_db.result = "DatabaseException"
            /\ app.init_db.attempts = app.init_db.max_retries

(***************************************************************************)
(* C24: at startup MainView is created at most once and only after a call  *)
(* of init_db that returned.  Once the thread and the event loop have      *)
(* nothing left to do: if the init_db call of _async_initialize returned,  *)
(* MainView was created exactly once; if it raised and no later init_db    *)
(* call returned, an error dialog was shown and MainView was not created.  *)
(***************************************************************************)
EventsOf(kind) == {i \in 1..Len(app.events) : app.events[i].kind = kind}
InitReturned == {i \in EventsOf("init_db") : app.events[i].what = "returned"}
AppQuiescent == app.pc = "done" /\ app.tasks = <<>>

C24_MainViewAfterInit ==
  /\ Cardinality(EventsOf("MainView")) <= 1
  /\ \A i \in EventsOf("MainView") : \E j \in InitReturned : j < i
  /\ AppQuiescent =>
       IF 1 \in InitReturned
       THEN Cardinality(EventsOf("MainView")) = 1
       ELSE InitReturned = {} =>
              /\ EventsOf("info_dialog") # {}
              /\ EventsOf("MainView") = {}
====
